---- MODULE Spec2Model ----
(***************************************************************************)
(* openEHR MCP server: the EHRbase client.                                 *)
(*                                                                         *)
(* FormatConfig (format_config.py), the HTTP transport                     *)
(* EHRbaseHttpClient.request (http_client.py) and the domain clients       *)
(* (composition_client.py, ehr_client.py, template_client.py,              *)
(* query_client.py) as a state machine: one operation is started, its      *)
(* single HTTP request is on the wire while the coroutine is suspended in  *)
(* `await`, the server answers (or the network fails) and the operation    *)
(* returns or raises.                                                      *)
(*                                                                         *)
(* Python strings are sequences of tokens: a token is one character where  *)
(* the code looks inside the string (UIDs, Location headers, response      *)
(* bodies) and a whole literal where it does not ("json", "openehr/v1/").  *)
(* None is a one-token sequence whose token no string of the model holds.  *)
(***************************************************************************)
EXTENDS Integers, Sequences, FiniteSets, TLC

VARIABLES
    json_format_arg,  \* FormatConfig.__init__'s json_format argument
    env_format,       \* os.environ.get("EHRBASE_JSON_FORMAT") at construction
    json_format,      \* FormatConfig.json_format
    FORMAT_HEADERS,   \* EHRbaseHttpClient.FORMAT_HEADERS (class attribute)
    pc,               \* "idle" | "awaiting" | "sent" | "done": the operation's position
    call,             \* the running (or last finished) operation and its locals
    wire,             \* the HTTP request issued and not yet answered
    response,         \* the last answer of the server (or network failure)
    outcome,          \* what request returned or raised
    result,           \* what the operation returned or raised to its caller
    issued,           \* the HTTP requests the running operation has issued
    default_ehr_id,   \* EHRbaseHttpClient.default_ehr_id (the server's DEFAULT_EHR_ID)
    tool,             \* the running tool of the MCP server and its arguments
    tool_result,      \* what the tool returned to the host
    base_url,         \* EHRbaseHttpClient.base_url
    earlier_if_match, \* an earlier request of this client carried If-Match
    suspended         \* the other coroutine on this client, while it does not run

vars == <<json_format_arg, env_format, json_format, FORMAT_HEADERS,
          pc, call, wire, response, outcome, result, issued, default_ehr_id,
          tool, tool_result, base_url, earlier_if_match, suspended>>

-----------------------------------------------------------------------------
(* Strings *)

None == <<"<None>">>
E == <<>>

\* Python truthiness of an Optional[str]: None and "" are falsy.
Truthy(s) == s # None /\ s # E

\* The strings over alphabet A of length at most n.
StrUpTo(A, n) == UNION {[1..k -> A] : k \in 0..n}

\* sub in s (Python's substring test), sub non-empty.
Occurs(s, sub, i) ==
    /\ i + Len(sub) - 1 <= Len(s)
    /\ \A j \in 1..Len(sub) : s[i + j - 1] = sub[j]

Contains(s, sub) == \E i \in 1..Len(s) : Occurs(s, sub, i)

\* s.find(sub) + 1 when sub occurs in s.
Find(s, sub) == CHOOSE i \in 1..Len(s) :
    Occurs(s, sub, i) /\ \A k \in 1..(i - 1) : ~Occurs(s, sub, k)

\* s.split(sep): the list of the parts of s between the occurrences of sep,
\* scanned from the left.
RECURSIVE split(_, _)
split(s, sep) ==
    IF ~Contains(s, sep) THEN <<s>>
    ELSE LET i == Find(s, sep)
         IN  <<SubSeq(s, 1, i - 1)>> \o split(SubSeq(s, i + Len(sep), Len(s)), sep)

First(parts) == parts[1]
Last(parts) == parts[Len(parts)]

-----------------------------------------------------------------------------
(* format_config.py: FormatConfig *)

CANONICAL == <<"canonical">>
WT_FLAT == <<"wt_flat">>
WT_STRUCTURED == <<"wt_structured">>
DEFAULT_FORMAT == WT_FLAT

\* The format kinds the accessors name.
JSON == <<"json">>
XML == <<"xml">>
WEB_TEMPLATE == <<"web_template">>
FLAT_JSON == <<"flat_json">>
STRUCTURED_JSON == <<"structured_json">>

\* A mode string that is none of the three modes, and a format kind that
\* is none of the five kinds.
BOGUS_MODE == <<"bogus_mode">>
BOGUS_KIND == <<"bogus_kind">>

\* FormatConfig.__init__ with the environment consulted before the argument.
FormatConfig_init_env_first(arg, env) ==
    IF env \in {CANONICAL, WT_FLAT, WT_STRUCTURED} THEN env
    ELSE IF Truthy(arg) THEN arg
    ELSE DEFAULT_FORMAT

\* FormatConfig.__init__: the value json_format gets, from the argument and
\* from the environment variable (None when it is not set).
FormatConfig_init(arg, env) ==
    IF Truthy(arg) THEN arg
    ELSE IF env \in {CANONICAL, WT_FLAT, WT_STRUCTURED} THEN env
    ELSE DEFAULT_FORMAT

get_template_list_format(mode, override_format) ==
    IF Truthy(override_format) THEN override_format
    ELSE JSON

\* get_template_format giving the web template to wt_flat alone.
get_template_format_flat_only(mode, override_format) ==
    IF Truthy(override_format) THEN override_format
    ELSE IF mode = WT_FLAT THEN WEB_TEMPLATE
    ELSE JSON

get_template_format(mode, override_format) ==
    IF Truthy(override_format) THEN override_format
    ELSE IF mode = CANONICAL THEN JSON
    ELSE WEB_TEMPLATE

\* get_composition_format looking at the mode before the override.
get_composition_format_mode_first(mode, override_format) ==
    IF mode = CANONICAL THEN JSON
    ELSE IF Truthy(override_format) THEN override_format
    ELSE IF mode = WT_FLAT THEN FLAT_JSON
    ELSE IF mode = WT_STRUCTURED THEN STRUCTURED_JSON
    ELSE FLAT_JSON

get_composition_format(mode, override_format) ==
    IF Truthy(override_format) THEN override_format
    ELSE IF mode = CANONICAL THEN JSON
    ELSE IF mode = WT_FLAT THEN FLAT_JSON
    ELSE IF mode = WT_STRUCTURED THEN STRUCTURED_JSON
    ELSE FLAT_JSON

get_ehr_format(mode, override_format) ==
    IF Truthy(override_format) THEN override_format
    ELSE JSON

get_query_format(mode, override_format) ==
    IF Truthy(override_format) THEN override_format
    ELSE JSON

-----------------------------------------------------------------------------
(* http_client.py: EHRbaseHttpClient *)

\* A dict of headers or of query parameters is a function from names to
\* strings; {} is the empty function.
EmptyDict == <<>>
NoneDict == [none |-> TRUE]            \* None where a dict is expected
TruthyDict(d) == d # NoneDict /\ DOMAIN d # {}

\* dict.get(key, default)
Get(d, key, default) == IF key \in DOMAIN d THEN d[key] ELSE default

\* d.update(other) / d[key] = value on a copy of d
Update(d, other) == other @@ d

\* The initial value of the class attribute FORMAT_HEADERS.
FORMAT_HEADERS_TABLE ==
    (JSON :>
        (("Accept" :> <<"application/json">>) @@
         ("Content-Type" :> <<"application/json">>))) @@
    (XML :>
        (("Accept" :> <<"application/xml">>) @@
         ("Content-Type" :> <<"application/xml">>))) @@
    (WEB_TEMPLATE :>
        (("Accept" :> <<"application/openehr.wt+json">>) @@
         ("Content-Type" :> <<"application/json">>))) @@
    (FLAT_JSON :>
        (("Accept" :> <<"application/openehr.wt.flat.schema+json">>) @@
         ("Content-Type" :> <<"application/openehr.wt.flat.schema+json">>) @@
         ("Prefer" :> <<"return=representation">>))) @@
    (STRUCTURED_JSON :>
        (("Accept" :> <<"application/openehr.wt.structured.schema+json">>) @@
         ("Content-Type" :> <<"application/json">>)))

\* A JSON-able Python value passed as json_data: None, a dict (its keys in
\* insertion order) or a list.
NoneData == [type |-> "None", keys |-> <<>>]
Number(digits) == [type |-> "number", keys |-> <<>>, number |-> digits]
Dict(keys) == [type |-> "dict", keys |-> keys]
ListData == [type |-> "list", keys |-> <<>>]

\* Path literals that hold the text "composition".
CompositionLiterals == {"/composition", "/composition/", "composition"}

\* 'composition' in path
composition_in(path) == \E i \in 1..Len(path) : path[i] \in CompositionLiterals

\* build_query_params adding templateId whatever the path.
build_query_params_any_path(path, template_id, params) ==
    LET q0 == IF Truthy(template_id)
              THEN [templateId |-> template_id]
              ELSE EmptyDict
    IN  IF TruthyDict(params) THEN Update(q0, params) ELSE q0

\* request, lines 73-81: the query parameters of the request.
build_query_params(path, template_id, params) ==
    LET q0 == IF Truthy(template_id) /\ composition_in(path)
              THEN [templateId |-> template_id]
              ELSE EmptyDict
    IN  IF TruthyDict(params) THEN Update(q0, params) ELSE q0

\* build_headers giving an unknown format kind the flat_json entry.
build_headers_flat_default(table, method, format_type, version_uid) ==
    LET headers == Get(table, format_type, table[FLAT_JSON])
    IN  IF method = "PUT" /\ Truthy(version_uid)
        THEN Update(headers, "If-Match" :> version_uid)
        ELSE headers

\* build_headers adding If-Match whatever the method.
build_headers_any_method(table, method, format_type, version_uid) ==
    LET headers == Get(table, format_type, table[JSON])
    IN  IF Truthy(version_uid)
        THEN Update(headers, "If-Match" :> version_uid)
        ELSE headers

\* request, lines 87-91: the headers of the request, built on a copy of the
\* table's entry.
build_headers(table, method, format_type, version_uid) ==
    LET headers == Get(table, format_type, table[JSON])
    IN  IF method = "PUT" /\ Truthy(version_uid)
        THEN Update(headers, "If-Match" :> version_uid)
        ELSE headers

Methods == {"GET", "POST", "PUT", "DELETE"}

\* EHRbaseHttpClient.__init__, line 49: the argument, or EHRBASE_URL, or the
\* local server.
DEFAULT_URL == <<"http://localhost:8080/ehrbase/rest">>
EHRbaseHttpClient_init_base_url(arg, env) ==
    IF Truthy(arg) THEN arg
    ELSE IF env # None THEN env
    ELSE DEFAULT_URL

NoRequest == [method |-> "none"]

\* http_call whose POST prefers the JSON data to the raw content, and whose
\* DELETE sends the JSON data.
http_call_json_first(path, method, headers, query_params, json_data, content) ==
    LET params == IF TruthyDict(query_params) THEN query_params ELSE NoneDict
        base == [method |-> method, path |-> path, headers |-> headers,
                 params |-> params, url |-> base_url \o <<"/">> \o path]
    IN  IF method = "GET" THEN base @@ [json |-> NoneData, content |-> None]
        ELSE IF method = "POST" /\ json_data = NoneData
        THEN base @@ [json |-> NoneData, content |-> content]
        ELSE base @@ [json |-> json_data, content |-> None]

\* request, lines 104-114: the call made on the httpx client.
http_call(path, method, headers, query_params, json_data, content) ==
    LET params == IF TruthyDict(query_params) THEN query_params ELSE NoneDict
        base == [method |-> method, path |-> path, headers |-> headers,
                 params |-> params, url |-> base_url \o <<"/">> \o path]
    IN  CASE method = "GET" ->
                base @@ [json |-> NoneData, content |-> None]
          [] method = "POST" /\ content # None ->
                base @@ [json |-> NoneData, content |-> content]
          [] method = "POST" /\ content = None ->
                base @@ [json |-> json_data, content |-> None]
          [] method = "PUT" ->
                base @@ [json |-> json_data, content |-> None]
          [] method = "DELETE" ->
                base @@ [json |-> NoneData, content |-> None]

\* The answers of the server: a status code, the body bytes and the
\* response headers; or no answer at all (a network failure).
MaxBody == 2
MaxLocation == 2
StatusCodes == {200, 201, 204, 404, 500}
BodyChars == {" ", "1", "x"}
LocationChars == {"/", "a"}
Bodies == StrUpTo(BodyChars, MaxBody)
Locations == StrUpTo(LocationChars, MaxLocation)
ResponseHeaders ==
    {EmptyDict, "Content-Type" :> <<"text/html">>}
    \cup {"Location" :> l : l \in Locations}
NetworkError == [kind |-> "network_error"]
NoResponse == [kind |-> "none"]
HttpResponses ==
    [kind : {"http"}, status_code : StatusCodes, content : Bodies,
     headers : ResponseHeaders]

\* What an operation hands to its caller.
NoOutcome == [kind |-> "none"]
Returned(v) == [kind |-> "return", value |-> v]
Raised(e) == [kind |-> "raise", error |-> e]

\* is_success taking every status below 500 for a success.
is_success_below_500(status_code) == 200 <= status_code /\ status_code <= 499

\* httpx.Response.is_success
is_success(status_code) == 200 <= status_code /\ status_code <= 299

\* bytes.strip(): the body without leading and trailing white space.
RECURSIVE strip(_)
strip(b) ==
    IF b = E THEN b
    ELSE IF Head(b) = " " THEN strip(Tail(b))
    ELSE IF b[Len(b)] = " " THEN strip(SubSeq(b, 1, Len(b) - 1))
    ELSE b

\* The text of a query result set with two rows, one of them empty, and
\* the value it parses to.
RowsDocument == <<"{\"rows\": [[\"e1\"], []]}">>
RowsResult ==
    [type |-> "dict", keys |-> << <<"rows">> >>, rows |-> << << <<"e1">> >>, <<>> >>]

\* response.json(): the body parses when, white space aside, it is a JSON
\* number (a non-empty run of digits) or the result set document; anything
\* else raises.
json_loads(b) ==
    LET t == strip(b)
    IN  IF t # E /\ \A i \in 1..Len(t) : t[i] = "1"
        THEN [ok |-> TRUE, value |-> Number(t)]
        ELSE IF t = RowsDocument
        THEN [ok |-> TRUE, value |-> RowsResult]
        ELSE [ok |-> FALSE]

SUCCESS == <<"success">>
NoContentMarker ==
    [status |-> SUCCESS, message |-> <<"Operation completed successfully">>]
CreatedMarker(ehr_id) ==
    [status |-> SUCCESS, message |-> <<"Resource created successfully">>,
     ehr_id |-> ehr_id]
DegradedMarker(resp) ==
    [status |-> SUCCESS, status_code |-> resp.status_code,
     headers |-> resp.headers,
     content_type |-> Get(resp.headers, "Content-Type", <<"unknown">>),
     content_length |-> Len(resp.content)]

\* location_ehr_id taking the first segment of the Location header.
location_ehr_id_first(headers) ==
    LET location == Get(headers, "Location", E)
    IN  IF location # E THEN First(split(location, <<"/">>)) ELSE None

\* request, lines 127-128: the identifier taken from the Location header.
location_ehr_id(headers) ==
    LET location == Get(headers, "Location", E)
    IN  IF location # E THEN Last(split(location, <<"/">>)) ELSE None

\* parse_body letting the parse failure out.
parse_body_raising(resp) ==
    LET parsed == json_loads(resp.content)
    IN  IF parsed.ok THEN Returned(parsed.value)
        ELSE Raised([type |-> "JSONDecodeError"])

\* request, lines 140-151: the body parsed as JSON, or the degraded marker.
parse_body(resp) ==
    LET parsed == json_loads(resp.content)
    IN  IF parsed.ok THEN Returned(parsed.value)
        ELSE Returned(DegradedMarker(resp))

\* success_result without the 204 case.
success_result_no_204(resp) ==
    IF resp.status_code = 201 /\ strip(resp.content) = E
    THEN Returned(CreatedMarker(location_ehr_id(resp.headers)))
    ELSE parse_body(resp)

\* request, lines 119-158: what request makes of a successful answer.
success_result(resp) ==
    IF resp.status_code = 204
    THEN Returned(NoContentMarker)
    ELSE IF resp.status_code = 201 /\ strip(resp.content) = E
    THEN Returned(CreatedMarker(location_ehr_id(resp.headers)))
    ELSE parse_body(resp)

\* request, lines 102-162: what request makes of the answer. The httpx call
\* raises on a network failure, raise_for_status on a status that is no
\* success, and the handler logs and raises again.
normalize(resp) ==
    IF resp.kind = "network_error"
    THEN Raised([type |-> "RequestError"])
    ELSE IF ~is_success(resp.status_code)
    THEN Raised([type |-> "HTTPStatusError", response |-> resp])
    ELSE success_result(resp)

-----------------------------------------------------------------------------
(* The running operation *)

NoCall == [op |-> "none"]
NoTool == [name |-> "none"]

\* finish with delete_ehr letting the failure out like the others.
finish_delete_ehr_raising(op, r) == r

\* finish with every operation turning a failure into False.
finish_all_swallowing(op, r) ==
    IF r.kind = "raise" THEN Returned(FALSE)
    ELSE IF op = "delete_ehr" THEN Returned(TRUE)
    ELSE r

\* What the operation op makes of the outcome r of its request.
finish(op, r) ==
    IF op = "delete_ehr"
    THEN (IF r.kind = "raise" THEN Returned(FALSE) ELSE Returned(TRUE))
    ELSE r

\* requests_made with a call on the httpx client whatever the method.
requests_made_always(method) == 1

\* requests_made sending a GET a second time.
requests_made_twice(method) ==
    IF method = "GET" THEN 2 ELSE IF method \in Methods THEN 1 ELSE 0

\* request, lines 104-114: the number of calls made on the httpx client,
\* one in the branch of the method and none when no branch is taken.
requests_made(method) == IF method \in Methods THEN 1 ELSE 0

\* An operation raises before it calls request.
raise_before_request(error) ==
    /\ pc' = "done"
    /\ wire' = NoRequest
    /\ response' = NoResponse
    /\ outcome' = NoOutcome
    /\ result' = Raised(error)
    /\ issued' = issued
    /\ FORMAT_HEADERS' = FORMAT_HEADERS
    /\ earlier_if_match' = earlier_if_match
    /\ suspended' = suspended

\* table_after with the headers built in the table's own entry.
table_after_shared(table, method, format_type, version_uid) ==
    LET kind == IF format_type \in DOMAIN table THEN format_type ELSE JSON
    IN  IF method = "PUT" /\ Truthy(version_uid)
        THEN [table EXCEPT ![kind] = Update(@, "If-Match" :> version_uid)]
        ELSE table

\* request, lines 87-91: the class attribute after the headers are built;
\* they are built on a copy.
table_after(table, method, format_type, version_uid) == table

\* EHRbaseHttpClient.request up to its await: the request goes on the wire
\* and the coroutine is suspended; a method that is none of the four makes
\* no call on the httpx client, and the use of the unbound `response` raises
\* at once.
request(path, method, json_data, content, format_type, template_id, version_uid, params) ==
    LET query_params == build_query_params(path, template_id, params)
        headers == build_headers(FORMAT_HEADERS, method, format_type, version_uid)
    IN  /\ FORMAT_HEADERS' = table_after(FORMAT_HEADERS, method, format_type,
                                             version_uid)
        /\ earlier_if_match' = earlier_if_match
        /\ suspended' = suspended
        /\ response' = NoResponse
        /\ issued' = issued + requests_made(method)
        /\ IF method \in Methods
           THEN /\ wire' = http_call(path, method, headers, query_params,
                                     json_data, content)
                /\ pc' = "awaiting"
                /\ outcome' = NoOutcome
                /\ result' = NoOutcome
           ELSE /\ wire' = NoRequest
                /\ pc' = "done"
                /\ outcome' = Raised([type |-> "UnboundLocalError"])
                /\ result' = finish(call'.op, outcome')

\* The tools whose message names the template.
NamesTemplate == {"openehr_template_get", "openehr_compositions_list"}

\* What the tool still uses of its arguments after its await.
kept(t) ==
    IF t.name \in NamesTemplate
    THEN [name |-> t.name, template_id |-> t.template_id]
    ELSE [name |-> t.name]

\* The request has left: the server (or the network) has it. Of the
\* suspended coroutine's locals only the operation's name bears on what
\* follows.
deliver ==
    /\ pc = "awaiting"
    /\ pc' = "sent"
    /\ wire' = NoRequest
    /\ call' = [op |-> call.op]
    /\ tool' = kept(tool)
    /\ UNCHANGED <<json_format_arg, env_format, json_format, FORMAT_HEADERS,
                   response, outcome, result, issued, default_ehr_id,
                   tool_result, base_url, suspended>>

Deliver == deliver /\ UNCHANGED earlier_if_match

\* The request has left, and what it carried is remembered.
DeliverRemembered ==
    /\ deliver
    /\ earlier_if_match' = (earlier_if_match \/ "If-Match" \in DOMAIN wire.headers)

\* The server answers, or the network fails, and the suspended operation
\* runs to its end.
respond(r) ==
    /\ pc = "sent"
    /\ response' = r
    /\ outcome' = normalize(r)
    /\ result' = finish(call.op, normalize(r))
    /\ pc' = "done"
    /\ UNCHANGED <<json_format_arg, env_format, json_format, FORMAT_HEADERS,
                   call, wire, issued, default_ehr_id, tool, tool_result,
                   base_url, earlier_if_match, suspended>>

Respond == \E r \in HttpResponses \cup {NetworkError} : respond(r)

\* The caller takes the result; the client keeps nothing of the call.
Return ==
    /\ pc = "done"
    /\ pc' = "idle"
    /\ call' = NoCall
    /\ response' = NoResponse
    /\ outcome' = NoOutcome
    /\ result' = NoOutcome
    /\ issued' = 0
    /\ tool' = NoTool
    /\ tool_result' = NoOutcome
    /\ UNCHANGED <<json_format_arg, env_format, json_format, FORMAT_HEADERS,
                   wire, default_ehr_id, base_url, earlier_if_match,
                   suspended>>

\* A coroutine's own state: its position, its locals and what it awaits.
\* The event loop runs one coroutine at a time and changes to another only
\* where the running one awaits (lines 103-114: entering the httpx client
\* and the call of the verb, both after the request is built) or has not
\* started or has ended; the locals of request (query_params, headers, url,
\* the httpx client) belong to the coroutine.
coroutine ==
    [pc |-> pc, call |-> call, wire |-> wire, response |-> response,
     outcome |-> outcome, result |-> result, issued |-> issued]

NotStarted ==
    [pc |-> "idle", call |-> NoCall, wire |-> NoRequest, response |-> NoResponse,
     outcome |-> NoOutcome, result |-> NoOutcome, issued |-> 0]

\* The event loop suspends the running coroutine and resumes the other one.
\* The client and its class are the same objects for both.
Switch ==
    /\ suspended # coroutine
    /\ suspended' = coroutine
    /\ pc' = suspended.pc
    /\ call' = suspended.call
    /\ wire' = suspended.wire
    /\ response' = suspended.response
    /\ outcome' = suspended.outcome
    /\ result' = suspended.result
    /\ issued' = suspended.issued
    /\ UNCHANGED <<json_format_arg, env_format, json_format, FORMAT_HEADERS,
                   default_ehr_id, tool, tool_result, base_url,
                   earlier_if_match>>

-----------------------------------------------------------------------------
(* The inputs of the operations *)

MaxUid == 4
MaxKey == 2
UidChars == {"o", ":"}
KeyChars == {"t", "/"}
EhrIds == {<<"e1">>}
CompositionUids == StrUpTo(UidChars, MaxUid)
TemplateIds == {<<"t">>}
OptionalTemplateIds == {None, E, <<"t">>, <<"u">>}
FormatOverrides == {None, E, XML, BOGUS_KIND}
FormatKinds == {None, JSON, XML, WEB_TEMPLATE, FLAT_JSON, STRUCTURED_JSON, BOGUS_KIND}
CompositionData ==
    {NoneData, ListData, Dict(<<>>)}
    \cup {Dict(<<k>>) : k \in StrUpTo(KeyChars, MaxKey)}

\* The direct callers of request.
RequestPaths == {<<"openehr/v1/ehr">>, <<"openehr/v1/ehr/", "e1", "/composition">>}
RequestMethods == Methods \cup {"PATCH"}
RequestJson == {NoneData, Dict(<< <<"t", "/">> >>)}
RequestContent == {None, <<"<template/>">>}
RequestTemplateIds == {None, E, <<"t">>}
RequestVersionUids == {None, E, <<"o", ":", ":", "o">>}
RequestParams == {NoneDict, EmptyDict, [templateId |-> <<"p">>], [subject_id |-> <<"s">>]}

\* No operation assigns the FormatConfig or an attribute of the transport.
ConfigUnchanged ==
    UNCHANGED <<json_format_arg, env_format, json_format, default_ehr_id, base_url>>

\* The operation is called on a client directly: no tool of the MCP server
\* runs and the lifecycle test is not under way.
Direct == UNCHANGED <<tool, tool_result>>

-----------------------------------------------------------------------------
(* composition_client.py: CompositionClient *)

\* _extract_template_id taking the part of the first key after its last '/'.
extract_template_id_last_part(composition_data) ==
    IF composition_data.type = "dict" /\ composition_data.keys # <<>>
    THEN LET first_key == composition_data.keys[1]
         IN  IF Contains(first_key, <<"/">>)
             THEN Last(split(first_key, <<"/">>))
             ELSE None
    ELSE None

\* _extract_template_id
extract_template_id(composition_data) ==
    IF composition_data.type = "dict" /\ composition_data.keys # <<>>
    THEN LET first_key == composition_data.keys[1]
         IN  IF Contains(first_key, <<"/">>)
             THEN First(split(first_key, <<"/">>))
             ELSE None
    ELSE None

\* `a or b` preferring b.
Or_second_first(a, b) == IF Truthy(b) THEN b ELSE a

\* `a or b` on Optional[str]
Or(a, b) == IF Truthy(a) THEN a ELSE b

\* versioned_object_uid leaving the UID whole.
versioned_object_uid_whole(composition_uid) == composition_uid

\* update_composition, lines 124-126
versioned_object_uid(composition_uid) ==
    IF Contains(composition_uid, <<":", ":">>)
    THEN First(split(composition_uid, <<":", ":">>))
    ELSE composition_uid

\* f"{x}": the text of x, "None" for None.
fstr(x) == IF x = None THEN <<"None">> ELSE x

composition_path(ehr_id) ==
    <<"openehr/v1/ehr/">> \o fstr(ehr_id) \o <<"/composition">>
composition_uid_path(ehr_id, uid) ==
    <<"openehr/v1/ehr/">> \o fstr(ehr_id) \o <<"/composition/">> \o uid

update_composition(ehr_id, composition_uid, composition_data, format_type_arg, template_id_arg) ==
    LET template_id == Or(template_id_arg, extract_template_id(composition_data))
        format_type == get_composition_format(json_format, format_type_arg)
    IN  /\ call' = [op |-> "update_composition", ehr_id |-> ehr_id,
                    composition_uid |-> composition_uid,
                    composition_data |-> composition_data,
                    override |-> format_type_arg, format_type |-> format_type,
                    template_id_arg |-> template_id_arg,
                    template_id |-> template_id]
        /\ request(composition_uid_path(ehr_id, versioned_object_uid(composition_uid)),
                   "PUT", composition_data, None, format_type, template_id,
                   composition_uid, NoneDict)
        /\ ConfigUnchanged

create_composition(ehr_id, composition_data, format_type_arg, template_id_arg) ==
    LET template_id == Or(template_id_arg, extract_template_id(composition_data))
        format_type == get_composition_format(json_format, format_type_arg)
    IN  /\ call' = [op |-> "create_composition", ehr_id |-> ehr_id,
                    composition_data |-> composition_data,
                    override |-> format_type_arg, format_type |-> format_type,
                    template_id_arg |-> template_id_arg,
                    template_id |-> template_id]
        /\ request(composition_path(ehr_id), "POST", composition_data, None,
                   format_type, template_id, None, NoneDict)
        /\ ConfigUnchanged

get_composition(ehr_id, composition_uid, format_type_arg) ==
    LET format_type == get_composition_format(json_format, format_type_arg)
    IN  /\ call' = [op |-> "get_composition", ehr_id |-> ehr_id,
                    composition_uid |-> composition_uid,
                    override |-> format_type_arg, format_type |-> format_type]
        /\ request(composition_uid_path(ehr_id, composition_uid), "GET",
                   NoneData, None, format_type, None, None, NoneDict)
        /\ ConfigUnchanged

delete_composition(ehr_id, composition_uid, format_type_arg) ==
    LET format_type_0 == get_composition_format(json_format, format_type_arg)
        format_type == IF format_type_0 = None THEN JSON ELSE format_type_0
    IN  /\ call' = [op |-> "delete_composition", ehr_id |-> ehr_id,
                    composition_uid |-> composition_uid,
                    override |-> format_type_arg, format_type |-> format_type]
        /\ request(composition_uid_path(ehr_id, composition_uid), "DELETE",
                   NoneData, None, format_type, None, None, NoneDict)
        /\ ConfigUnchanged

CreateComposition ==
    /\ pc = "idle"
    /\ Direct
    /\ \E ehr_id \in EhrIds, data \in CompositionData, f \in FormatOverrides,
          t \in OptionalTemplateIds :
        create_composition(ehr_id, data, f, t)

GetComposition ==
    /\ pc = "idle"
    /\ Direct
    /\ \E ehr_id \in EhrIds, uid \in CompositionUids, f \in FormatOverrides :
        get_composition(ehr_id, uid, f)

UpdateComposition ==
    /\ pc = "idle"
    /\ Direct
    /\ \E ehr_id \in EhrIds, uid \in CompositionUids, data \in CompositionData,
          f \in FormatOverrides, t \in OptionalTemplateIds :
        update_composition(ehr_id, uid, data, f, t)

DeleteComposition ==
    /\ pc = "idle"
    /\ Direct
    /\ \E ehr_id \in EhrIds, uid \in CompositionUids, f \in FormatOverrides :
        delete_composition(ehr_id, uid, f)

-----------------------------------------------------------------------------
(* template_client.py: TemplateClient *)

template_list_path == <<"openehr/v1/definition/template/adl1.4">>
template_path(template_id) ==
    <<"openehr/v1/definition/template/adl1.4/">> \o template_id
template_example_path(template_id) ==
    <<"openehr/v1/definition/template/adl1.4/">> \o template_id \o <<"/example">>

list_templates(format_type_arg) ==
    LET format_type == get_template_list_format(json_format, format_type_arg)
    IN  /\ call' = [op |-> "list_templates",
                    override |-> format_type_arg, format_type |-> format_type]
        /\ request(template_list_path, "GET", NoneData, None, format_type,
                   None, None, NoneDict)
        /\ ConfigUnchanged

get_template(template_id, format_type_arg) ==
    LET format_type == get_template_format(json_format, format_type_arg)
    IN  /\ call' = [op |-> "get_template", template_id |-> template_id,
                    override |-> format_type_arg, format_type |-> format_type]
        /\ request(template_path(template_id), "GET", NoneData, None,
                   format_type, None, None, NoneDict)
        /\ ConfigUnchanged

get_example_composition(template_id, format_type_arg) ==
    LET format_type == get_composition_format(json_format, format_type_arg)
    IN  /\ call' = [op |-> "get_example_composition", template_id |-> template_id,
                    override |-> format_type_arg, format_type |-> format_type]
        /\ request(template_example_path(template_id), "GET", NoneData, None,
                   format_type, None, None, NoneDict)
        /\ ConfigUnchanged

\* upload_template: the file is read (None: it cannot be opened, and open
\* raises) and its text is posted as XML.
upload_template(opt_path, template_content) ==
    /\ call' = [op |-> "upload_template", template_path |-> opt_path,
                template_content |-> template_content]
    /\ IF template_content = None
       THEN raise_before_request([type |-> "OSError"])
       ELSE request(template_list_path, "POST", NoneData, template_content,
                    XML, None, None, NoneDict)
    /\ ConfigUnchanged

TemplateFiles == {None, E, <<"<template/>">>}

UploadTemplate ==
    /\ pc = "idle"
    /\ Direct
    /\ \E c \in TemplateFiles : upload_template(<<"t.opt">>, c)

ListTemplates ==
    /\ pc = "idle"
    /\ Direct
    /\ \E f \in FormatOverrides : list_templates(f)

GetTemplate ==
    /\ pc = "idle"
    /\ Direct
    /\ \E t \in TemplateIds, f \in FormatOverrides : get_template(t, f)

GetExampleComposition ==
    /\ pc = "idle"
    /\ Direct
    /\ \E t \in TemplateIds, f \in FormatOverrides : get_example_composition(t, f)

-----------------------------------------------------------------------------
(* ehr_client.py: EHRClient *)

ehr_list_path == <<"openehr/v1/ehr">>
ehr_path(ehr_id) == <<"openehr/v1/ehr/">> \o ehr_id
ehr_status_path(ehr_id) == <<"openehr/v1/ehr/">> \o ehr_id \o <<"/ehr_status">>
\* admin_ehr_path on the openEHR API instead of the admin API.
admin_ehr_path_openehr(ehr_id) == <<"openehr/v1/ehr/">> \o ehr_id

admin_ehr_path(ehr_id) == <<"admin/ehr/">> \o ehr_id

EhrStatusData == {NoneData, Dict(<< <<"subject">> >>)}

create_ehr(ehr_status, format_type_arg) ==
    LET format_type == get_ehr_format(json_format, format_type_arg)
    IN  /\ call' = [op |-> "create_ehr", ehr_status |-> ehr_status,
                    override |-> format_type_arg, format_type |-> format_type]
        /\ request(ehr_list_path, "POST", ehr_status, None, format_type,
                   None, None, NoneDict)
        /\ ConfigUnchanged

get_ehr(ehr_id, format_type_arg) ==
    LET format_type == get_ehr_format(json_format, format_type_arg)
    IN  /\ call' = [op |-> "get_ehr", ehr_id |-> ehr_id,
                    override |-> format_type_arg, format_type |-> format_type]
        /\ request(ehr_path(ehr_id), "GET", NoneData, None, format_type,
                   None, None, NoneDict)
        /\ ConfigUnchanged

get_ehr_status(ehr_id, format_type_arg) ==
    LET format_type == get_ehr_format(json_format, format_type_arg)
    IN  /\ call' = [op |-> "get_ehr_status", ehr_id |-> ehr_id,
                    override |-> format_type_arg, format_type |-> format_type]
        /\ request(ehr_status_path(ehr_id), "GET", NoneData, None, format_type,
                   None, None, NoneDict)
        /\ ConfigUnchanged

\* get_ehr_by_subject_id: both arguments are required; the request carries
\* them as query parameters.
get_ehr_by_subject_id(subject_id, subject_namespace, format_type_arg) ==
    LET format_type == get_ehr_format(json_format, format_type_arg)
    IN  /\ call' = [op |-> "get_ehr_by_subject_id", subject_id |-> subject_id,
                    subject_namespace |-> subject_namespace,
                    override |-> format_type_arg, format_type |-> format_type]
        /\ IF ~Truthy(subject_id) \/ ~Truthy(subject_namespace)
           THEN raise_before_request([type |-> "ValueError",
                    message |-> <<"Both subject_id and subject_namespace are required">>])
           ELSE request(ehr_list_path, "GET", NoneData, None, format_type,
                        None, None,
                        [subject_id |-> subject_id,
                         subject_namespace |-> subject_namespace])
        /\ ConfigUnchanged

\* An EHR status document with an embedded uid whose value is v.
StatusWithUid(v) ==
    [type |-> "dict", keys |-> << <<"uid">>, <<"subject">> >>, uid |-> [value |-> v]]

\* Truthiness of a JSON-able value: None, {} and [] are falsy.
TruthyData(d) == d.type # "None" /\ ~(d.type = "dict" /\ d.keys = <<>>) /\ d # ListData

\* key in d, for a dict d
HasKey(d, key) == \E i \in 1..Len(d.keys) : d.keys[i] = key

\* resolved_version_uid looking into the status document first.
resolved_version_uid_document_first(status_data, version_uid) ==
    IF TruthyData(status_data) /\ HasKey(status_data, <<"uid">>)
    THEN status_data.uid.value
    ELSE version_uid

\* update_ehr_status, lines 153-155: the version UID after the look into the
\* status document.
resolved_version_uid(status_data, version_uid) ==
    IF ~Truthy(version_uid) /\ TruthyData(status_data) /\ HasKey(status_data, <<"uid">>)
    THEN status_data.uid.value
    ELSE version_uid

update_ehr_status(ehr_id, status_data, version_uid_arg, format_type_arg) ==
    LET format_type == get_ehr_format(json_format, format_type_arg)
        version_uid == resolved_version_uid(status_data, version_uid_arg)
    IN  /\ call' = [op |-> "update_ehr_status", ehr_id |-> ehr_id,
                    status_data |-> status_data,
                    version_uid_arg |-> version_uid_arg,
                    version_uid |-> version_uid,
                    override |-> format_type_arg, format_type |-> format_type]
        /\ IF ~Truthy(version_uid)
           THEN raise_before_request([type |-> "ValueError",
                    message |-> <<"Version UID is required for updating EHR status">>])
           ELSE request(ehr_status_path(ehr_id), "PUT", status_data, None,
                        format_type, None, version_uid, NoneDict)
        /\ ConfigUnchanged

delete_ehr(ehr_id) ==
    /\ call' = [op |-> "delete_ehr", ehr_id |-> ehr_id]
    /\ request(admin_ehr_path(ehr_id), "DELETE", NoneData, None, JSON,
               None, None, NoneDict)
    /\ ConfigUnchanged

CreateEhr ==
    /\ pc = "idle"
    /\ Direct
    /\ \E st \in EhrStatusData, f \in FormatOverrides : create_ehr(st, f)

GetEhr ==
    /\ pc = "idle"
    /\ Direct
    /\ \E ehr_id \in EhrIds, f \in FormatOverrides : get_ehr(ehr_id, f)

GetEhrStatus ==
    /\ pc = "idle"
    /\ Direct
    /\ \E ehr_id \in EhrIds, f \in FormatOverrides : get_ehr_status(ehr_id, f)

DeleteEhr ==
    /\ pc = "idle"
    /\ Direct
    /\ \E ehr_id \in EhrIds : delete_ehr(ehr_id)

SubjectIds == {None, E, <<"s1">>}
SubjectNamespaces == {None, E, <<"ns">>}
StatusDocuments ==
    {NoneData, Dict(<<>>), Dict(<< <<"subject">> >>)}
    \cup {StatusWithUid(v) : v \in {None, E, <<"s", ":", ":", "1">>}}
StatusVersionUids == {None, E, <<"v", ":", ":", "2">>}

GetEhrBySubjectId ==
    /\ pc = "idle"
    /\ Direct
    /\ \E s \in SubjectIds, n \in SubjectNamespaces, f \in FormatOverrides :
        get_ehr_by_subject_id(s, n, f)

UpdateEhrStatus ==
    /\ pc = "idle"
    /\ Direct
    /\ \E ehr_id \in EhrIds, d \in StatusDocuments, v \in StatusVersionUids,
          f \in FormatOverrides :
        update_ehr_status(ehr_id, d, v, f)

-----------------------------------------------------------------------------
(* query_client.py: QueryClient *)

query_path == <<"openehr/v1/query/aql">>
Queries == {E, <<"SELECT e/ehr_id/value FROM EHR e">>}
QueryParameters == {NoneDict, EmptyDict, [ehr_id |-> <<"e1">>]}

\* query_payload with the parameters in the payload whatever they are.
query_payload_always_parameters(query, query_parameters) ==
    [type |-> "dict", keys |-> << <<"q">>, <<"query_parameters">> >>,
     q |-> query, query_parameters |-> query_parameters]

\* execute_adhoc_query, lines 48-55: the payload.
query_payload(query, query_parameters) ==
    IF TruthyDict(query_parameters)
    THEN [type |-> "dict", keys |-> << <<"q">>, <<"query_parameters">> >>,
          q |-> query, query_parameters |-> query_parameters]
    ELSE [type |-> "dict", keys |-> << <<"q">> >>, q |-> query]

execute_adhoc_query(query, query_parameters, format_type_arg) ==
    LET format_type == get_query_format(json_format, format_type_arg)
    IN  /\ call' = [op |-> "execute_adhoc_query", query |-> query,
                    query_parameters |-> query_parameters,
                    override |-> format_type_arg, format_type |-> format_type]
        /\ request(query_path, "POST", query_payload(query, query_parameters),
                   None, format_type, None, None, NoneDict)
        /\ ConfigUnchanged

ExecuteAdhocQuery ==
    /\ pc = "idle"
    /\ Direct
    /\ \E q \in Queries, qp \in QueryParameters, f \in FormatOverrides :
        execute_adhoc_query(q, qp, f)

-----------------------------------------------------------------------------
(* client.py: EHRbaseClient, the facade. Each method awaits the method of
   its domain client with the arguments it was given. *)

\* An argument that the caller does not pass.
NotPassed == <<"<not passed>">>

\* update_composition of the facade has no template_id parameter: a call
\* that passes one raises TypeError when it is made.
unexpected_argument(method, ehr_id, composition_uid, composition_data, format_type, template_id) ==
    /\ call' = [op |-> method, ehr_id |-> ehr_id,
                composition_uid |-> composition_uid,
                composition_data |-> composition_data,
                override |-> format_type, template_id_arg |-> template_id]
    /\ raise_before_request([type |-> "TypeError"])
    /\ ConfigUnchanged

EHRbaseClient_get_template_list(format_type) == list_templates(format_type)
EHRbaseClient_get_template(template_id, format_type) == get_template(template_id, format_type)
EHRbaseClient_get_template_example(template_id, format_type) == get_example_composition(template_id, format_type)
EHRbaseClient_create_composition(ehr_id, composition_data, format_type, template_id) == create_composition(ehr_id, composition_data, format_type, template_id)
EHRbaseClient_get_composition(ehr_id, composition_uid, format_type) == get_composition(ehr_id, composition_uid, format_type)
EHRbaseClient_update_composition(ehr_id, composition_uid, composition_data, format_type, template_id) == IF template_id = NotPassed THEN update_composition(ehr_id, composition_uid, composition_data, format_type, None) ELSE unexpected_argument("EHRbaseClient.update_composition", ehr_id, composition_uid, composition_data, format_type, template_id)
EHRbaseClient_delete_composition(ehr_id, preceding_version_uid, format_type) == delete_composition(ehr_id, preceding_version_uid, format_type)
EHRbaseClient_create_ehr(ehr_status, format_type) == create_ehr(ehr_status, format_type)
EHRbaseClient_get_ehr(ehr_id, format_type) == get_ehr(ehr_id, format_type)
EHRbaseClient_get_ehr_by_subject_id(subject_id, subject_namespace, format_type) == get_ehr_by_subject_id(subject_id, subject_namespace, format_type)
EHRbaseClient_get_ehr_status(ehr_id, format_type) == get_ehr_status(ehr_id, format_type)
EHRbaseClient_update_ehr_status(ehr_id, status_data, version_uid, format_type) == update_ehr_status(ehr_id, status_data, version_uid, format_type)
EHRbaseClient_delete_ehr(ehr_id) == delete_ehr(ehr_id)
EHRbaseClient_execute_adhoc_query(query, query_parameters, format_type) == execute_adhoc_query(query, query_parameters, format_type)

\* A method of the facade is called.
Facade ==
    /\ pc = "idle"
    /\ Direct
    /\ \E f \in FormatOverrides :
        \/ EHRbaseClient_get_template_list(f)
        \/ \E t \in TemplateIds :
            \/ EHRbaseClient_get_template(t, f)
            \/ EHRbaseClient_get_template_example(t, f)
        \/ \E ehr_id \in EhrIds :
            \/ \E data \in CompositionData :
                \/ \E t \in OptionalTemplateIds :
                        EHRbaseClient_create_composition(ehr_id, data, f, t)
                \/ \E uid \in CompositionUids, t \in {NotPassed, <<"u">>} :
                        EHRbaseClient_update_composition(ehr_id, uid, data, f, t)
            \/ \E uid \in CompositionUids :
                \/ EHRbaseClient_get_composition(ehr_id, uid, f)
                \/ EHRbaseClient_delete_composition(ehr_id, uid, f)
            \/ EHRbaseClient_get_ehr(ehr_id, f)
            \/ EHRbaseClient_get_ehr_status(ehr_id, f)
            \/ EHRbaseClient_delete_ehr(ehr_id)
            \/ \E d \in StatusDocuments, v \in StatusVersionUids :
                    EHRbaseClient_update_ehr_status(ehr_id, d, v, f)
        \/ \E st \in EhrStatusData : EHRbaseClient_create_ehr(st, f)
        \/ \E sid \in SubjectIds, n \in SubjectNamespaces :
                EHRbaseClient_get_ehr_by_subject_id(sid, n, f)
        \/ \E q \in Queries, qp \in QueryParameters :
                EHRbaseClient_execute_adhoc_query(q, qp, f)

-----------------------------------------------------------------------------
(* Direct use of the transport *)

Request ==
    /\ pc = "idle"
    /\ Direct
    /\ \E path \in RequestPaths, method \in RequestMethods, j \in RequestJson,
       c \in RequestContent, f \in FormatKinds, t \in RequestTemplateIds,
       v \in RequestVersionUids, p \in RequestParams :
        /\ call' = [op |-> "request", path |-> path, method |-> method,
                    json_data |-> j, content |-> c, format_type |-> f,
                    template_id |-> t, version_uid |-> v, params |-> p]
        /\ request(path, method, j, c, f, t, v, p)
        /\ ConfigUnchanged

-----------------------------------------------------------------------------
(* openehr_mcp_server.py: the tools of the MCP server. The server module
   builds one facade, EHRbaseClient(), from the environment when it is
   loaded, and every tool calls that facade. *)

\* A str passed where a tool takes "a JSON string or object".
StrArg(text) == [type |-> "str", keys |-> <<>>, text |-> text]

\* The str a tool returns: a message, or json.dumps(v, indent=2).
Text(tokens) == [kind |-> "text", text |-> tokens]
JsonText(v) == [kind |-> "json", of |-> v]

\* isinstance(v, dict), for the results of a client.
is_dict(v) == "type" \notin DOMAIN v \/ v.type = "dict"

\* str(e)
str_error(e) == IF "message" \in DOMAIN e THEN e.message ELSE <<e.type>>

\* f"Error {doing}: {str(e)}", the message of a tool's except clause.
Doing ==
    [openehr_template_list |-> "listing templates",
     openehr_template_get |-> "retrieving template",
     openehr_template_example_composition |-> "generating example",
     openehr_ehr_create |-> "creating EHR",
     openehr_ehr_get |-> "retrieving EHR",
     openehr_ehr_list |-> "listing EHRs",
     openehr_ehr_get_by_subject |-> "retrieving EHR by subject",
     openehr_composition_create |-> "creating composition",
     openehr_composition_get |-> "retrieving composition",
     openehr_composition_update |-> "updating composition",
     openehr_composition_delete |-> "deleting composition",
     openehr_query_adhoc |-> "executing query",
     openehr_compositions_list |-> "listing compositions for template"]

doing(t) ==
    IF t.name \in NamesTemplate
    THEN <<Doing[t.name], " ">> \o fstr(t.template_id)
    ELSE <<Doing[t.name]>>

error_msg(t, e) == Text(<<"Error", " ">> \o doing(t) \o <<":", " ">> \o str_error(e))

\* openehr_ehr_list, lines 266-276: the EHR IDs of the non-empty rows.
RECURSIVE first_columns(_)
first_columns(rows) ==
    IF rows = <<>> THEN <<>>
    ELSE (IF Head(rows) # <<>> THEN <<Head(rows)[1]>> ELSE <<>>)
         \o first_columns(Tail(rows))

ehr_list_summary(query_result) ==
    LET ehr_ids == IF "rows" \in DOMAIN query_result
                   THEN first_columns(query_result.rows)
                   ELSE <<>>
    IN  [type |-> "dict", keys |-> << <<"ehr_ids">>, <<"total">> >>,
         ehr_ids |-> ehr_ids, total |-> Len(ehr_ids)]

\* `"rows" in query_result` raises TypeError on a number and on None.
supports_in(v) == "type" \notin DOMAIN v \/ v.type \in {"dict", "list", "str"}

\* tool_finish letting the error of the client out of the tool.
tool_finish_raising(t, r) ==
    IF r.kind = "raise" THEN r ELSE Returned(JsonText(r.value))

\* The rest of a tool after its await: the result encoded (and used in a
\* log line), or the message of the except clause.
tool_finish(t, r) ==
    IF r.kind = "raise" THEN Returned(error_msg(t, r.error))
    ELSE IF t.name = "openehr_ehr_create" /\ ~is_dict(r.value)
    THEN Returned(error_msg(t, [type |-> "AttributeError"]))
    ELSE IF t.name = "openehr_ehr_list"
    THEN (IF ~supports_in(r.value)
          THEN Returned(error_msg(t, [type |-> "TypeError"]))
          ELSE Returned(JsonText(ehr_list_summary(r.value))))
    ELSE Returned(JsonText(r.value))

\* The tool returns a message without calling the facade.
return_locally(message) ==
    /\ pc' = "done"
    /\ call' = NoCall
    /\ wire' = NoRequest
    /\ response' = NoResponse
    /\ outcome' = NoOutcome
    /\ result' = NoOutcome
    /\ issued' = issued
    /\ FORMAT_HEADERS' = FORMAT_HEADERS
    /\ earlier_if_match' = earlier_if_match
    /\ suspended' = suspended
    /\ tool_result' = Returned(Text(message))
    /\ ConfigUnchanged

\* The tool awaits a method of the facade.
awaited ==
    tool_result' = IF pc' = "done" THEN tool_finish(tool', result') ELSE NoOutcome

\* loads_argument passing on a string that does not parse.
loads_argument_lenient(arg) ==
    IF arg.type = "str" /\ json_loads(arg.text).ok
    THEN json_loads(arg.text)
    ELSE [ok |-> TRUE, value |-> arg]

\* json.loads of an argument that is a str; any other argument is used as
\* it is.
loads_argument(arg) ==
    IF arg.type = "str" THEN json_loads(arg.text)
    ELSE [ok |-> TRUE, value |-> arg]

invalid_json(argument_name, arg) ==
    <<"Error", ":", " ", argument_name, " must be a valid JSON string, received: ">>
        \o arg.text

openehr_template_list ==
    /\ tool' = [name |-> "openehr_template_list"]
    /\ EHRbaseClient_get_template_list(None)
    /\ awaited

openehr_template_get(template_id) ==
    /\ tool' = [name |-> "openehr_template_get", template_id |-> template_id]
    /\ EHRbaseClient_get_template(template_id, None)
    /\ awaited

openehr_template_example_composition(template_id) ==
    /\ tool' = [name |-> "openehr_template_example_composition",
                template_id |-> template_id]
    /\ EHRbaseClient_get_template_example(template_id, None)
    /\ awaited

openehr_ehr_create(ehr_status) ==
    LET parsed == IF TruthyData(ehr_status) THEN loads_argument(ehr_status)
                  ELSE [ok |-> TRUE, value |-> NoneData]
    IN  /\ tool' = [name |-> "openehr_ehr_create", ehr_status |-> ehr_status]
        /\ IF ~parsed.ok
           THEN return_locally(invalid_json("ehr_status", ehr_status))
           ELSE /\ EHRbaseClient_create_ehr(parsed.value, None)
                /\ awaited

openehr_ehr_get(ehr_id) ==
    /\ tool' = [name |-> "openehr_ehr_get", ehr_id |-> ehr_id]
    /\ IF ~Truthy(ehr_id)
       THEN return_locally(<<"Error", ":", " ", "No EHR ID provided">>)
       ELSE /\ EHRbaseClient_get_ehr(ehr_id, None)
            /\ awaited

openehr_ehr_list ==
    /\ tool' = [name |-> "openehr_ehr_list"]
    /\ EHRbaseClient_execute_adhoc_query(
            <<"SELECT e/ehr_id/value AS ehr_id FROM EHR e">>, NoneDict, None)
    /\ awaited

openehr_ehr_get_by_subject(subject_id, subject_namespace) ==
    /\ tool' = [name |-> "openehr_ehr_get_by_subject", subject_id |-> subject_id,
                subject_namespace |-> subject_namespace]
    /\ IF ~Truthy(subject_id) \/ ~Truthy(subject_namespace)
       THEN return_locally(<<"Error", ":", " ",
                             "Both subject_id and subject_namespace are required">>)
       ELSE /\ EHRbaseClient_get_ehr_by_subject_id(subject_id, subject_namespace, None)
            /\ awaited

openehr_composition_create(composition_data, ehr_id) ==
    LET target_ehr_id == Or(ehr_id, default_ehr_id)
        parsed == loads_argument(composition_data)
    IN  /\ tool' = [name |-> "openehr_composition_create",
                    composition_data |-> composition_data, ehr_id |-> ehr_id]
        /\ IF ~TruthyData(composition_data)
           THEN return_locally(<<"Error", ":", " ", "No composition data provided">>)
           ELSE IF ~parsed.ok
           THEN return_locally(invalid_json("composition_data", composition_data))
           ELSE /\ EHRbaseClient_create_composition(target_ehr_id, parsed.value,
                                                    None, None)
                /\ awaited

openehr_composition_get(composition_uid, ehr_id) ==
    LET target_ehr_id == Or(ehr_id, default_ehr_id)
    IN  /\ tool' = [name |-> "openehr_composition_get",
                    composition_uid |-> composition_uid, ehr_id |-> ehr_id]
        /\ IF ~Truthy(composition_uid)
           THEN return_locally(<<"Error", ":", " ", "No composition UID provided">>)
           ELSE /\ EHRbaseClient_get_composition(target_ehr_id, composition_uid, None)
                /\ awaited

openehr_composition_update(composition_uid, composition_data, ehr_id) ==
    LET target_ehr_id == Or(ehr_id, default_ehr_id)
        parsed == loads_argument(composition_data)
    IN  /\ tool' = [name |-> "openehr_composition_update",
                    composition_uid |-> composition_uid,
                    composition_data |-> composition_data, ehr_id |-> ehr_id]
        /\ IF ~Truthy(composition_uid)
           THEN return_locally(<<"Error", ":", " ", "No composition UID provided">>)
           ELSE IF ~TruthyData(composition_data)
           THEN return_locally(<<"Error", ":", " ", "No composition data provided">>)
           ELSE IF ~parsed.ok
           THEN return_locally(invalid_json("composition_data", composition_data))
           ELSE /\ EHRbaseClient_update_composition(target_ehr_id, composition_uid,
                                                    parsed.value, None, NotPassed)
                /\ awaited

openehr_composition_delete(preceding_version_uid, ehr_id) ==
    LET target_ehr_id == Or(ehr_id, default_ehr_id)
    IN  /\ tool' = [name |-> "openehr_composition_delete",
                    preceding_version_uid |-> preceding_version_uid,
                    ehr_id |-> ehr_id]
        /\ IF ~Truthy(preceding_version_uid)
           THEN return_locally(<<"Error", ":", " ",
                                 "No composition version UID provided">>)
           ELSE /\ EHRbaseClient_delete_composition(target_ehr_id,
                                                    preceding_version_uid, None)
                /\ awaited

openehr_query_adhoc(query, query_parameters) ==
    LET parsed == IF TruthyData(query_parameters)
                  THEN loads_argument(query_parameters)
                  ELSE [ok |-> TRUE, value |-> NoneDict]
    IN  /\ tool' = [name |-> "openehr_query_adhoc", query |-> query,
                    query_parameters |-> query_parameters]
        /\ IF ~Truthy(query)
           THEN return_locally(<<"Error", ":", " ", "No query provided">>)
           ELSE IF ~parsed.ok
           THEN return_locally(invalid_json("query_parameters", query_parameters))
           ELSE /\ EHRbaseClient_execute_adhoc_query(query, parsed.value, None)
                /\ awaited

openehr_compositions_list(template_id) ==
    /\ tool' = [name |-> "openehr_compositions_list", template_id |-> template_id]
    /\ EHRbaseClient_execute_adhoc_query(
            <<"SELECT e/ehr_id/value AS ehr_id, c AS composition FROM EHR e ",
              "CONTAINS COMPOSITION c WHERE ",
              "c/archetype_details/template_id/value = $template_id">>,
            [template_id |-> template_id], None)
    /\ awaited

\* The arguments the host passes.
ToolTemplateIds == {E, <<"t">>}
ToolEhrIds == {E, <<"e1">>}
ToolOptionalEhrIds == {None, E, <<"e1">>}
ToolUids == {E, <<"o", ":", ":", "o">>}
ToolSubjects == {E, <<"s1">>}
ToolQueries == {E, <<"SELECT c FROM COMPOSITION c">>}
ToolJson ==
    {NoneData, Dict(<<>>), Dict(<< <<"t", "/">> >>)}
    \cup {StrArg(text) : text \in Bodies}

\* The host calls a tool.
Tool ==
    /\ pc = "idle"
    /\ \/ openehr_template_list
       \/ openehr_ehr_list
       \/ \E t \in ToolTemplateIds :
            \/ openehr_template_get(t)
            \/ openehr_template_example_composition(t)
            \/ openehr_compositions_list(t)
       \/ \E j \in ToolJson :
            \/ openehr_ehr_create(j)
            \/ \E q \in ToolQueries : openehr_query_adhoc(q, j)
            \/ \E ehr_id \in ToolOptionalEhrIds :
                \/ openehr_composition_create(j, ehr_id)
                \/ \E uid \in ToolUids : openehr_composition_update(uid, j, ehr_id)
       \/ \E ehr_id \in ToolEhrIds : openehr_ehr_get(ehr_id)
       \/ \E sid \in ToolSubjects, n \in ToolSubjects :
            openehr_ehr_get_by_subject(sid, n)
       \/ \E uid \in ToolUids, ehr_id \in ToolOptionalEhrIds :
            \/ openehr_composition_get(uid, ehr_id)
            \/ openehr_composition_delete(uid, ehr_id)

\* The answers of the server to the requests of the tools.
ToolBodies == {E, <<"1">>, <<"x">>, RowsDocument}
ToolResponses ==
    {NetworkError}
    \cup [kind : {"http"}, status_code : StatusCodes, content : ToolBodies,
          headers : {EmptyDict, "Location" :> <<"/", "a">>}]

\* The server answers, or the network fails; the suspended method of the
\* client and the tool that awaits it run to their end.
ToolRespond ==
    /\ pc = "sent"
    /\ \E r \in ToolResponses :
        /\ response' = r
        /\ outcome' = normalize(r)
        /\ result' = finish(call.op, normalize(r))
        /\ tool_result' = tool_finish(tool, finish(call.op, normalize(r)))
    /\ pc' = "done"
    /\ UNCHANGED <<json_format_arg, env_format, json_format, FORMAT_HEADERS,
                   call, wire, issued, default_ehr_id, tool, base_url,
                   earlier_if_match, suspended>>

-----------------------------------------------------------------------------
(* The specification *)

ModeArguments == {None, E, CANONICAL, BOGUS_MODE}
EnvironmentValues == {None, WT_FLAT, WT_STRUCTURED, BOGUS_MODE}

Init ==
    /\ json_format_arg \in ModeArguments
    /\ env_format \in EnvironmentValues
    /\ json_format = FormatConfig_init(json_format_arg, env_format)
    /\ FORMAT_HEADERS = FORMAT_HEADERS_TABLE
    /\ pc = "idle"
    /\ call = NoCall
    /\ wire = NoRequest
    /\ response = NoResponse
    /\ outcome = NoOutcome
    /\ result = NoOutcome
    /\ issued = 0
    /\ default_ehr_id = None
    /\ tool = NoTool
    /\ tool_result = NoOutcome
    /\ base_url = EHRbaseHttpClient_init_base_url(None, None)
    /\ earlier_if_match = FALSE
    /\ suspended = NotStarted

Next ==
    \/ Request
    \/ CreateComposition
    \/ GetComposition
    \/ UpdateComposition
    \/ DeleteComposition
    \/ ListTemplates
    \/ GetTemplate
    \/ GetExampleComposition
    \/ CreateEhr
    \/ GetEhr
    \/ GetEhrStatus
    \/ DeleteEhr
    \/ ExecuteAdhocQuery
    \/ GetEhrBySubjectId
    \/ UpdateEhrStatus
    \/ UploadTemplate
    \/ Facade
    \/ Deliver
    \/ Respond
    \/ Return

Spec == Init /\ [][Next]_vars

\* The MCP server: the facade is built by EHRbaseClient() when the module
\* is loaded, its mode and default EHR ID come from the environment, and
\* the host calls the tools.
DefaultEhrIds == {None, <<"e1">>}

ToolInit ==
    /\ json_format_arg = None
    /\ env_format \in EnvironmentValues
    /\ json_format = FormatConfig_init(json_format_arg, env_format)
    /\ FORMAT_HEADERS = FORMAT_HEADERS_TABLE
    /\ pc = "idle"
    /\ call = NoCall
    /\ wire = NoRequest
    /\ response = NoResponse
    /\ outcome = NoOutcome
    /\ result = NoOutcome
    /\ issued = 0
    /\ default_ehr_id \in DefaultEhrIds
    /\ tool = NoTool
    /\ tool_result = NoOutcome
    /\ base_url = EHRbaseHttpClient_init_base_url(None, None)
    /\ earlier_if_match = FALSE
    /\ suspended = NotStarted

ToolNext ==
    \/ Tool
    \/ Deliver
    \/ ToolRespond
    \/ Return

ToolSpec == ToolInit /\ [][ToolNext]_vars

\* A client built with any base URL and default EHR ID, whose requests are
\* remembered.
BaseUrlEnvironment == {None, <<"http://ehrbase/rest">>}

FrameInit ==
    /\ json_format_arg = None
    /\ env_format \in {None, WT_STRUCTURED}
    /\ json_format = FormatConfig_init(json_format_arg, env_format)
    /\ FORMAT_HEADERS = FORMAT_HEADERS_TABLE
    /\ pc = "idle"
    /\ call = NoCall
    /\ wire = NoRequest
    /\ response = NoResponse
    /\ outcome = NoOutcome
    /\ result = NoOutcome
    /\ issued = 0
    /\ default_ehr_id \in DefaultEhrIds
    /\ tool = NoTool
    /\ tool_result = NoOutcome
    /\ \E env \in BaseUrlEnvironment :
            base_url = EHRbaseHttpClient_init_base_url(None, env)
    /\ earlier_if_match = FALSE
    /\ suspended = NotStarted

FrameNext ==
    \/ Request
    \/ CreateComposition
    \/ GetComposition
    \/ UpdateComposition
    \/ DeleteComposition
    \/ ListTemplates
    \/ GetTemplate
    \/ GetExampleComposition
    \/ CreateEhr
    \/ GetEhr
    \/ GetEhrStatus
    \/ DeleteEhr
    \/ ExecuteAdhocQuery
    \/ GetEhrBySubjectId
    \/ UpdateEhrStatus
    \/ UploadTemplate
    \/ Facade
    \/ DeliverRemembered
    \/ Respond
    \/ Return

FrameSpec == FrameInit /\ [][FrameNext]_vars

\* A caller that uses the facade only.
FacadeNext ==
    \/ Facade
    \/ Deliver
    \/ Respond
    \/ Return

FacadeSpec == Init /\ [][FacadeNext]_vars

\* Two callers of one facade whose coroutines run on one event loop: each
\* calls a method when its coroutine has none under way, and the loop may
\* change coroutine wherever the running one waits.
ConcurrentUids == {<<"o">>, <<"o", ":", ":", "o">>}
ConcurrentData == {Dict(<<>>), Dict(<< <<"t", "/">> >>)}
ConcurrentFormats == {None, XML}
ConcurrentAnswers ==
    {[kind |-> "http", status_code |-> 200, content |-> <<"1">>,
      headers |-> EmptyDict],
     [kind |-> "http", status_code |-> 204, content |-> <<>>,
      headers |-> EmptyDict],
     [kind |-> "http", status_code |-> 404, content |-> <<"x">>,
      headers |-> EmptyDict],
     NetworkError}

ConcurrentCall ==
    /\ pc = "idle"
    /\ Direct
    /\ \E f \in ConcurrentFormats :
        \/ EHRbaseClient_get_template_list(f)
        \/ \E data \in ConcurrentData :
            \/ \E t \in {None, <<"u">>} :
                    EHRbaseClient_create_composition(<<"e1">>, data, f, t)
            \/ \E uid \in ConcurrentUids :
                    EHRbaseClient_update_composition(<<"e1">>, uid, data, f,
                                                     NotPassed)
        \/ \E uid \in ConcurrentUids :
                EHRbaseClient_get_composition(<<"e1">>, uid, f)
        \/ \E q \in Queries, qp \in {NoneDict, [ehr_id |-> <<"e1">>]} :
                EHRbaseClient_execute_adhoc_query(q, qp, f)

ConcurrentRespond == \E r \in ConcurrentAnswers : respond(r)

ConcurrentNext ==
    \/ ConcurrentCall
    \/ Deliver
    \/ ConcurrentRespond
    \/ Return
    \/ Switch

ConcurrentSpec == Init /\ [][ConcurrentNext]_vars

-----------------------------------------------------------------------------
(* Properties: FormatConfig *)

Modes == {CANONICAL, WT_FLAT, WT_STRUCTURED}

\* The table of the format modes: for each mode the format of template
\* list, template detail, composition, EHR and query operations.
ModeTable ==
    (CANONICAL     :> <<JSON, JSON,         JSON,            JSON, JSON>>) @@
    (WT_FLAT       :> <<JSON, WEB_TEMPLATE, FLAT_JSON,       JSON, JSON>>) @@
    (WT_STRUCTURED :> <<JSON, WEB_TEMPLATE, STRUCTURED_JSON, JSON, JSON>>)

\* The accessors, in the order of the table's columns.
Accessors(mode, override) ==
    <<get_template_list_format(mode, override),
      get_template_format(mode, override),
      get_composition_format(mode, override),
      get_ehr_format(mode, override),
      get_query_format(mode, override)>>

\* The column of the table that an operation of a domain client reads.
Column(op) ==
    CASE op = "list_templates" -> 1
      [] op = "get_template" -> 2
      [] op \in {"create_composition", "get_composition", "update_composition",
                 "delete_composition", "get_example_composition"} -> 3
      [] op \in {"create_ehr", "get_ehr", "get_ehr_status",
                 "get_ehr_by_subject_id", "update_ehr_status"} -> 4
      [] op = "execute_adhoc_query" -> 5

\* The operation now suspended resolved its format through an accessor.
ResolvesFormat == pc = "awaiting" /\ "override" \in DOMAIN call

\* C1: with no override supplied (None), under each of the three modes the
\* five accessors return the formats of the table's row for the mode, and
\* an operation started without an override has resolved its format to the
\* table's entry.
C1_NoOverrideGivesTable ==
    json_format \in Modes =>
        /\ Accessors(json_format, None) = ModeTable[json_format]
        /\ (ResolvesFormat /\ call.override = None) =>
                call.format_type = ModeTable[json_format][Column(call.op)]

C1_Witness ==
    /\ json_format = WT_STRUCTURED
    /\ ResolvesFormat
    /\ call.op = "get_template"
    /\ call.override = None
    /\ call.format_type = WEB_TEMPLATE
    /\ wire.headers["Accept"] = <<"application/openehr.wt+json">>

\* C2: a supplied override (a non-empty string: the accessors test
\* `if override_format`) is returned unchanged by every accessor under
\* every mode, and an operation started with one has resolved its format to
\* it, whatever the mode.
C2_OverrideWins ==
    /\ \A o \in (FormatOverrides \cup FormatKinds) :
            Truthy(o) => Accessors(json_format, o) = <<o, o, o, o, o>>
    /\ (ResolvesFormat /\ Truthy(call.override)) =>
            call.format_type = call.override

C2_Witness ==
    /\ json_format = CANONICAL
    /\ ResolvesFormat
    /\ call.op = "get_composition"
    /\ call.override = XML
    /\ call.format_type = XML

\* The mode is the argument when one is given, otherwise the environment
\* value when the variable is set, otherwise wt_flat.
ArgumentThenEnvironment(arg, env) ==
    IF Truthy(arg) THEN arg
    ELSE IF Truthy(env) THEN env
    ELSE WT_FLAT

\* C3 as stated: in every state the mode is the argument when given,
\* otherwise the value of EHRBASE_JSON_FORMAT, otherwise wt_flat.
C3_AsStated == json_format = ArgumentThenEnvironment(json_format_arg, env_format)

\* C3 amended: in every state, after any operations, the mode is the
\* argument when a non-empty one was given; otherwise the value of
\* EHRBASE_JSON_FORMAT when that value is one of the three modes; otherwise
\* (the variable unset, or set to anything else) wt_flat.
C3_ModeFixedAtConstruction ==
    json_format =
        IF json_format_arg # None /\ json_format_arg # E THEN json_format_arg
        ELSE IF env_format \in Modes THEN env_format
        ELSE WT_FLAT

C3_Witness ==
    /\ json_format_arg = E
    /\ env_format = BOGUS_MODE
    /\ json_format = WT_FLAT
    /\ pc = "done"
    /\ result.kind = "return"

\* C4 as stated: the active mode is one of canonical, wt_flat,
\* wt_structured, whatever the argument and the environment value.
C4_ModeIsOneOfThree == json_format \in Modes

-----------------------------------------------------------------------------
(* Properties: the transport *)

\* request has an answer of the server and has finished.
Answered == pc = "done" /\ response.kind = "http"

IsErrorStatus(status_code) == 400 <= status_code /\ status_code <= 599

\* C5: when the server answers with an error status (4xx, 5xx), request
\* returns nothing: it raises an error that carries the answer, whose
\* status code is the one the server sent; no success marker and no parsed
\* body comes out.
C5_ErrorStatusRaises ==
    (Answered /\ IsErrorStatus(response.status_code)) =>
        /\ outcome.kind = "raise"
        /\ outcome.error.type = "HTTPStatusError"
        /\ outcome.error.response.status_code = response.status_code
        /\ outcome.error.response.content = response.content

C5_Witness ==
    /\ Answered
    /\ response.status_code = 404
    /\ response.content = <<"1">>
    /\ outcome.kind = "raise"
    /\ outcome.error.response.status_code = 404

\* C6: a 204 answer gives the generic success marker whatever the body,
\* also when the body is valid JSON.
C6_NoContentIsMarker ==
    (Answered /\ response.status_code = 204) =>
        outcome = Returned([status |-> SUCCESS,
                            message |-> <<"Operation completed successfully">>])

C6_Witness ==
    /\ Answered
    /\ response.status_code = 204
    /\ json_loads(response.content).ok
    /\ outcome.kind = "return"
    /\ outcome.value.status = SUCCESS

\* s is white space only (or empty).
IsBlank(s) == \A i \in 1..Len(s) : s[i] = " "

\* The part of s after its last "/" (s itself when it holds none).
LastSegment(s) ==
    IF \E i \in 1..Len(s) : s[i] = "/"
    THEN LET k == CHOOSE i \in 1..Len(s) :
                    s[i] = "/" /\ \A j \in (i + 1)..Len(s) : s[j] # "/"
         IN  SubSeq(s, k + 1, Len(s))
    ELSE s

\* The answer carries a Location header (with a value).
HasLocation(resp) ==
    "Location" \in DOMAIN resp.headers /\ resp.headers["Location"] # E

\* What the JSON parsing step gives for an answer.
ParsedOrDegraded(resp) ==
    IF json_loads(resp.content).ok
    THEN json_loads(resp.content).value
    ELSE [status |-> SUCCESS, status_code |-> resp.status_code,
          headers |-> resp.headers,
          content_type |-> IF "Content-Type" \in DOMAIN resp.headers
                           THEN resp.headers["Content-Type"]
                           ELSE <<"unknown">>,
          content_length |-> Len(resp.content)]

\* C7: a 201 answer with an empty or blank body gives the creation marker,
\* whose ehr_id is the last "/"-separated segment of the Location header
\* when the answer has one and None when it has none (or an empty one); a
\* 201 answer with any other body goes to JSON parsing.
C7_CreatedMarker ==
    (Answered /\ response.status_code = 201) =>
        IF IsBlank(response.content)
        THEN /\ outcome.kind = "return"
             /\ outcome.value.status = SUCCESS
             /\ outcome.value.message = <<"Resource created successfully">>
             /\ outcome.value.ehr_id =
                    IF HasLocation(response)
                    THEN LastSegment(response.headers["Location"])
                    ELSE None
        ELSE outcome = Returned(ParsedOrDegraded(response))

C7_Witness ==
    /\ Answered
    /\ response.status_code = 201
    /\ response.content = <<" ">>
    /\ HasLocation(response)
    /\ response.headers["Location"] = <<"/", "a">>
    /\ outcome.value.ehr_id = <<"a">>

\* C8: a successful answer that is neither a 204 nor a blank 201 gives the
\* parsed body when it parses and otherwise the degraded marker (status,
\* status code, headers, content type, byte length); request raises in
\* neither case.
C8_ParseOrDegrade ==
    (/\ Answered
     /\ response.status_code \in 200..299
     /\ response.status_code # 204
     /\ ~(response.status_code = 201 /\ IsBlank(response.content))) =>
        /\ outcome.kind = "return"
        /\ outcome.value = ParsedOrDegraded(response)
        /\ result.kind = "return"

C8_Witness ==
    /\ Answered
    /\ response.status_code = 200
    /\ response.content = <<"x">>
    /\ outcome.kind = "return"
    /\ outcome.value.status = SUCCESS
    /\ outcome.value.content_length = 1
    /\ outcome.value.content_type = <<"unknown">>

\* The version UID that the suspended operation passed to request.
VersionUidPassed ==
    CASE call.op = "request" -> call.version_uid
      [] call.op = "update_composition" -> call.composition_uid
      [] call.op = "update_ehr_status" -> call.version_uid
      [] OTHER -> None

\* C9: the request on the wire carries If-Match exactly when its method is
\* PUT and a version UID (a non-empty one) was passed, and then the header
\* is that version UID; GET, POST and DELETE requests carry none.
C9_IfMatchOnlyOnPut ==
    pc = "awaiting" =>
        /\ ("If-Match" \in DOMAIN wire.headers) <=>
                (wire.method = "PUT" /\ Truthy(VersionUidPassed))
        /\ "If-Match" \in DOMAIN wire.headers =>
                wire.headers["If-Match"] = VersionUidPassed

C9_Witness ==
    /\ pc = "awaiting"
    /\ call.op = "request"
    /\ call.method = "PUT"
    /\ call.version_uid = <<"o", ":", ":", "o">>
    /\ wire.headers["If-Match"] = <<"o", ":", ":", "o">>

\* The part of uid before its first "::" (uid itself when it holds none).
BeforeFirstColons(uid) ==
    IF \E i \in 1..(Len(uid) - 1) : uid[i] = ":" /\ uid[i + 1] = ":"
    THEN LET k == CHOOSE i \in 1..(Len(uid) - 1) :
                    /\ uid[i] = ":" /\ uid[i + 1] = ":"
                    /\ \A j \in 1..(i - 1) : ~(uid[j] = ":" /\ uid[j + 1] = ":")
         IN  SubSeq(uid, 1, k - 1)
    ELSE uid

EndsWith(s, suffix) ==
    /\ Len(suffix) <= Len(s)
    /\ SubSeq(s, Len(s) - Len(suffix) + 1, Len(s)) = suffix

\* C10: for every composition UID (a non-empty string) update_composition
\* issues a PUT whose path ends in "/composition/" followed by the part of
\* the UID before its first "::" (the whole UID when it has none), with
\* If-Match the UID as passed.
C10_UpdatePathAndIfMatch ==
    (/\ pc = "awaiting"
     /\ call.op = "update_composition"
     /\ call.composition_uid # E) =>
        /\ wire.method = "PUT"
        /\ EndsWith(wire.path,
                    <<"/composition/">> \o BeforeFirstColons(call.composition_uid))
        /\ wire.path = <<"openehr/v1/ehr/">> \o call.ehr_id \o <<"/composition/">>
                            \o BeforeFirstColons(call.composition_uid)
        /\ "If-Match" \in DOMAIN wire.headers
        /\ wire.headers["If-Match"] = call.composition_uid

C10_Witness ==
    /\ pc = "awaiting"
    /\ call.op = "update_composition"
    /\ call.composition_uid = <<"o", ":", ":", "o">>
    /\ wire.path = <<"openehr/v1/ehr/", "e1", "/composition/", "o">>
    /\ wire.headers["If-Match"] = <<"o", ":", ":", "o">>

-----------------------------------------------------------------------------
(* Properties: the domain clients *)

\* Composition bodies for the extraction: non-mappings, the empty mapping
\* and mappings of one or two keys.
ExtractionKeys == StrUpTo(KeyChars, MaxKey)
ExtractionInputs ==
    {NoneData, ListData, Dict(<<>>)}
    \cup {Dict(<<k>>) : k \in ExtractionKeys}
    \cup {Dict(<<k1, k2>>) : k1, k2 \in ExtractionKeys}

HasSlash(key) == \E i \in 1..Len(key) : key[i] = "/"

\* The part of key before its first "/".
BeforeFirstSlash(key) ==
    LET k == CHOOSE i \in 1..Len(key) :
                key[i] = "/" /\ \A j \in 1..(i - 1) : key[j] # "/"
    IN  SubSeq(key, 1, k - 1)

\* What the claim expects of the extraction on a body.
ExpectedTemplateId(d) ==
    IF d.type = "dict" /\ Len(d.keys) > 0 /\ HasSlash(d.keys[1])
    THEN BeforeFirstSlash(d.keys[1])
    ELSE None

\* The body is covered by the claim: a mapping whose first key holds "/",
\* or a body none of whose keys holds "/", an empty mapping, a non-mapping.
CoveredByC11(d) ==
    \/ d.type # "dict"
    \/ d.keys = <<>>
    \/ HasSlash(d.keys[1])
    \/ \A i \in 1..Len(d.keys) : ~HasSlash(d.keys[i])

\* C11: template-ID extraction gives the part of the first key before its
\* first "/" on a non-empty mapping whose first key holds "/", and no
\* template ID (None) on a mapping without "/" in any key, on the empty
\* mapping and on a non-mapping; a create or update started without a
\* template ID has resolved its template ID to the extraction's value.
C11_TemplateIdExtraction ==
    /\ pc = "idle" =>
            \A d \in ExtractionInputs :
                CoveredByC11(d) => extract_template_id(d) = ExpectedTemplateId(d)
    /\ (/\ pc = "awaiting"
        /\ call.op \in {"create_composition", "update_composition"}
        /\ call.template_id_arg = None) =>
            call.template_id = ExpectedTemplateId(call.composition_data)

C11_Witness ==
    /\ pc = "awaiting"
    /\ call.op = "create_composition"
    /\ call.template_id_arg = None
    /\ call.composition_data = Dict(<< <<"t", "/">> >>)
    /\ call.template_id = <<"t">>
    /\ wire.params = [templateId |-> <<"t">>]

\* A version identifier that is there: neither None nor empty.
NonEmpty(v) == v # None /\ v # E

\* The value of the uid field embedded in a status document (None when the
\* document has none).
EmbeddedUid(d) ==
    IF d.type = "dict" /\ (\E i \in 1..Len(d.keys) : d.keys[i] = <<"uid">>)
    THEN d.uid.value
    ELSE None

\* The version identifier the claim resolves for a call of update_ehr_status.
ResolvedVersion(c) ==
    IF NonEmpty(c.version_uid_arg) THEN c.version_uid_arg
    ELSE EmbeddedUid(c.status_data)

MissingVersionError ==
    [type |-> "ValueError",
     message |-> <<"Version UID is required for updating EHR status">>]

\* C12: update_ehr_status resolves the version identifier to the caller's
\* when one is supplied and otherwise to the value of the status document's
\* embedded uid; with no non-empty identifier from either it fails with the
\* missing-version error and has issued no HTTP request; with one it issues
\* exactly one request, a PUT to openehr/v1/ehr/{id}/ehr_status whose
\* If-Match is the resolved identifier.
C12_UpdateEhrStatusVersion ==
    /\ (call.op = "update_ehr_status" /\ "status_data" \in DOMAIN call) =>
            IF NonEmpty(ResolvedVersion(call))
            THEN /\ pc = "awaiting"
                 /\ issued = 1
                 /\ wire.method = "PUT"
                 /\ wire.path = <<"openehr/v1/ehr/">> \o call.ehr_id \o <<"/ehr_status">>
                 /\ "If-Match" \in DOMAIN wire.headers
                 /\ wire.headers["If-Match"] = ResolvedVersion(call)
            ELSE /\ pc = "done"
                 /\ result = Raised(MissingVersionError)
                 /\ issued = 0
                 /\ wire = NoRequest
                 /\ response = NoResponse
    /\ (call.op = "update_ehr_status" /\ "status_data" \notin DOMAIN call) =>
            issued = 1

C12_Witness ==
    /\ pc = "done"
    /\ call.op = "update_ehr_status"
    /\ call.version_uid_arg = E
    /\ call.status_data = StatusWithUid(None)
    /\ result = Raised(MissingVersionError)
    /\ issued = 0

\* C13: delete_ehr sends a DELETE to admin/ehr/{id} and never raises: it
\* returns True when the server answers with a success status and False
\* when the server answers with an error status or the network fails.
C13_DeleteEhrNeverRaises ==
    /\ (pc = "awaiting" /\ call.op = "delete_ehr") =>
            /\ wire.method = "DELETE"
            /\ wire.path = <<"admin/ehr/">> \o call.ehr_id
    /\ (pc = "done" /\ call.op = "delete_ehr") =>
            /\ result.kind = "return"
            /\ result.value =
                    (response.kind = "http" /\ response.status_code \in 200..299)

C13_Witness ==
    /\ pc = "done"
    /\ call.op = "delete_ehr"
    /\ response.kind = "http"
    /\ response.status_code = 404
    /\ outcome.kind = "raise"
    /\ result = Returned(FALSE)

\* The methods for which request has a branch.
SupportedMethods == {"GET", "POST", "PUT", "DELETE"}

\* C15 as stated: every call of request has issued exactly one HTTP request
\* by the time it is suspended or has finished, and no operation has issued
\* more than one.
C15_AsStated ==
    /\ issued <= 1
    /\ (pc # "idle" /\ call.op = "request") => issued = 1

\* C15 amended: a call of request with one of the methods GET, POST, PUT
\* and DELETE issues exactly one HTTP request, and with any other method it
\* issues none and raises; every operation of a domain client and of the
\* facade has issued at most one HTTP request, whether the request succeeded
\* or failed, and exactly one whenever a request is on the wire or answered.
C15_OneRequestPerCall ==
    /\ issued <= 1
    /\ (pc # "idle" /\ call.op = "request") =>
            IF "method" \in DOMAIN call /\ call.method \notin SupportedMethods
            THEN issued = 0 /\ pc = "done" /\ outcome.kind = "raise"
            ELSE issued = 1
    /\ (wire # NoRequest \/ response # NoResponse) => issued = 1

C15_Witness ==
    /\ pc = "done"
    /\ call.op = "get_ehr"
    /\ response.kind = "http"
    /\ response.status_code = 500
    /\ result.kind = "raise"
    /\ issued = 1

\* The fixed parts of the paths.
PathLiterals ==
    {"openehr/v1/ehr", "openehr/v1/ehr/", "/ehr_status", "admin/ehr/",
     "/composition", "/composition/",
     "openehr/v1/definition/template/adl1.4",
     "openehr/v1/definition/template/adl1.4/", "/example",
     "openehr/v1/query/aql"}

IsPathLiteral(x) == x \in PathLiterals

\* The path's template: its fixed parts in order, the identifiers left out.
\* A fixed part that ends in "/" is followed by an identifier.
Skeleton(path) == SelectSeq(path, IsPathLiteral)

\* The path starts with a fixed part, and a fixed part that takes no
\* identifier after it ends the path.
WellFormedPath(path) ==
    /\ path # <<>>
    /\ path[1] \in PathLiterals
    /\ \A i \in 1..Len(path) :
            path[i] \in {"openehr/v1/ehr", "/ehr_status", "/composition",
                         "openehr/v1/definition/template/adl1.4", "/example",
                         "openehr/v1/query/aql"} => i = Len(path)

\* The fixed list: the verb and path template of each named operation.
VerbAndPath ==
    [create_ehr |-> <<"POST", <<"openehr/v1/ehr">> >>,
     get_ehr_by_subject_id |-> <<"GET", <<"openehr/v1/ehr">> >>,
     get_ehr |-> <<"GET", <<"openehr/v1/ehr/">> >>,
     get_ehr_status |-> <<"GET", <<"openehr/v1/ehr/", "/ehr_status">> >>,
     update_ehr_status |-> <<"PUT", <<"openehr/v1/ehr/", "/ehr_status">> >>,
     delete_ehr |-> <<"DELETE", <<"admin/ehr/">> >>,
     create_composition |-> <<"POST", <<"openehr/v1/ehr/", "/composition">> >>,
     get_composition |-> <<"GET", <<"openehr/v1/ehr/", "/composition/">> >>,
     update_composition |-> <<"PUT", <<"openehr/v1/ehr/", "/composition/">> >>,
     delete_composition |-> <<"DELETE", <<"openehr/v1/ehr/", "/composition/">> >>,
     list_templates |-> <<"GET", <<"openehr/v1/definition/template/adl1.4">> >>,
     upload_template |-> <<"POST", <<"openehr/v1/definition/template/adl1.4">> >>,
     get_template |-> <<"GET", <<"openehr/v1/definition/template/adl1.4/">> >>,
     get_example_composition |->
        <<"GET", <<"openehr/v1/definition/template/adl1.4/", "/example">> >>,
     execute_adhoc_query |-> <<"POST", <<"openehr/v1/query/aql">> >>]

\* C16: every HTTP request that an operation of a domain client or of the
\* facade puts on the wire has the verb and the path template that the
\* fixed list gives for the operation, the same on every call.
C16_FixedVerbsAndPaths ==
    (pc = "awaiting" /\ call.op # "request") =>
        /\ call.op \in DOMAIN VerbAndPath
        /\ WellFormedPath(wire.path)
        /\ <<wire.method, Skeleton(wire.path)>> = VerbAndPath[call.op]

C16_Witness ==
    /\ pc = "awaiting"
    /\ call.op = "delete_ehr"
    /\ wire.method = "DELETE"
    /\ wire.path = <<"admin/ehr/", "e1">>

\* The request of the finished operation failed: the server answered with a
\* status that is no success, or the network failed.
RequestFailed ==
    /\ pc = "done"
    /\ \/ response.kind = "network_error"
       \/ response.kind = "http" /\ response.status_code \notin 200..299

\* C20: when the request of an operation other than delete_ehr fails (error
\* status or network error) the operation raises the error that request
\* raised; it returns no normal result and has sent no second request.
C20_FailurePropagates ==
    (RequestFailed /\ call.op # "delete_ehr") =>
        /\ outcome.kind = "raise"
        /\ result.kind = "raise"
        /\ result.error = outcome.error
        /\ response.kind = "http" =>
                /\ result.error.type = "HTTPStatusError"
                /\ result.error.response = response
        /\ response.kind = "network_error" => result.error.type = "RequestError"
        /\ issued = 1

C20_Witness ==
    /\ RequestFailed
    /\ call.op = "update_composition"
    /\ response.kind = "network_error"
    /\ result = Raised([type |-> "RequestError"])
    /\ issued = 1

-----------------------------------------------------------------------------
(* Properties: the tools of the MCP server (checked under ToolSpec) *)

\* A tool with arguments has been called and its request, if it made one,
\* has not left yet: the arguments are known.
ToolCalled == tool.name # "none" /\ DOMAIN tool # {"name"}

BeginsWith(s, prefix) ==
    Len(prefix) <= Len(s) /\ SubSeq(s, 1, Len(prefix)) = prefix

\* The tool has returned a message that begins with the given tokens.
ReturnedMessage(prefix) ==
    /\ tool_result.kind = "return"
    /\ tool_result.value.kind = "text"
    /\ BeginsWith(tool_result.value.text, prefix)

\* The tool has returned a failure message without any HTTP request.
FailedLocally ==
    /\ pc = "done"
    /\ ReturnedMessage(<<"Error", ":", " ">>)
    /\ Len(tool_result.value.text) > 3
    /\ issued = 0
    /\ wire = NoRequest
    /\ response = NoResponse

\* The text is a JSON document: a number between optional blanks, or the
\* result set document.
ValidJsonText(text) ==
    \/ \E i, j \in 1..Len(text) :
            /\ i <= j
            /\ \A k \in 1..Len(text) :
                    IF i <= k /\ k <= j THEN text[k] = "1" ELSE text[k] = " "
    \/ text = <<"{\"rows\": [[\"e1\"], []]}">>

\* The tools that take a JSON string or object, and the argument that is it.
JsonTools ==
    {"openehr_ehr_create", "openehr_composition_create",
     "openehr_composition_update", "openehr_query_adhoc"}

JsonArgument(t) ==
    CASE t.name = "openehr_ehr_create" -> t.ehr_status
      [] t.name = "openehr_composition_create" -> t.composition_data
      [] t.name = "openehr_composition_update" -> t.composition_data
      [] t.name = "openehr_query_adhoc" -> t.query_parameters

\* C17: a tool that expects JSON (ehr_status of openehr_ehr_create,
\* composition_data of openehr_composition_create and
\* openehr_composition_update, query_parameters of openehr_query_adhoc) and
\* receives a non-empty string that is not valid JSON returns a message that
\* begins with "Error: " and says more, and no HTTP request is issued.
C17_InvalidJsonRejected ==
    (/\ ToolCalled
     /\ tool.name \in JsonTools
     /\ JsonArgument(tool).type = "str"
     /\ JsonArgument(tool).text # E
     /\ ~ValidJsonText(JsonArgument(tool).text)) =>
        FailedLocally

C17_Witness ==
    /\ pc = "done"
    /\ tool.name = "openehr_composition_create"
    /\ tool.composition_data = StrArg(<<"x">>)
    /\ tool.ehr_id = <<"e1">>
    /\ tool_result =
            Returned(Text(<<"Error", ":", " ",
                            "composition_data",
                            " must be a valid JSON string, received: ", "x">>))
    /\ issued = 0
    /\ wire = NoRequest

\* The tools that work on a composition of an EHR.
CompositionTools ==
    {"openehr_composition_create", "openehr_composition_get",
     "openehr_composition_update", "openehr_composition_delete"}

\* A required identifier of the called tool is missing.
MissingIdentifier(t) ==
    \/ /\ t.name \in CompositionTools
       /\ t.ehr_id \in {None, E}
       /\ default_ehr_id = None
    \/ /\ t.name \in {"openehr_composition_get", "openehr_composition_update"}
       /\ t.composition_uid = E
    \/ /\ t.name = "openehr_composition_delete"
       /\ t.preceding_version_uid = E
    \/ /\ t.name \in {"openehr_template_get", "openehr_template_example_composition",
                      "openehr_compositions_list"}
       /\ t.template_id = E
    \/ /\ t.name = "openehr_ehr_get"
       /\ t.ehr_id = E
    \/ /\ t.name = "openehr_ehr_get_by_subject"
       /\ (t.subject_id = E \/ t.subject_namespace = E)
    \/ /\ t.name = "openehr_query_adhoc"
       /\ t.query = E

\* C18 as stated: a tool called with a required identifier missing returns
\* a failure message and no HTTP request is issued.
C18_MissingIdentifierRejected ==
    (ToolCalled /\ MissingIdentifier(tool)) => FailedLocally

\* The tool's call of the client has finished, with a failed request or not.
ClientCalled == pc = "done" /\ call # NoCall

\* The result of the client is a mapping.
IsMapping(v) == "type" \notin DOMAIN v \/ v.type = "dict"

\* The result of the client is a number or null.
IsScalar(v) == "type" \in DOMAIN v /\ v.type \in {"number", "None"}

\* C19 as stated: a tool always returns a string; after a failure (local
\* validation, network error, error status) the string begins with
\* "Error: ", and otherwise it is the JSON encoding of the client's result.
C19_AsStated ==
    (pc = "done" /\ tool.name # "none") =>
        /\ tool_result.kind = "return"
        /\ IF call = NoCall \/ RequestFailed
           THEN ReturnedMessage(<<"Error", ":", " ">>)
           ELSE tool_result.value = JsonText(result.value)

\* C19 amended: a tool always returns a string and lets no failure out.
\* After a failed local validation the string begins with "Error: "; after
\* a failed request (network error, error status) it begins with "Error "
\* followed by what the tool was doing; otherwise it is the JSON encoding of
\* the client's result, except that openehr_ehr_list encodes the summary
\* (ehr_ids, total) of the result, and that an "Error " message answers a
\* result that is no mapping (openehr_ehr_create) or that is a number or
\* null (openehr_ehr_list).
C19_ToolsReturnStrings ==
    (pc = "done" /\ tool.name # "none") =>
        /\ tool_result.kind = "return"
        /\ tool_result.value.kind \in {"text", "json"}
        /\ call = NoCall => ReturnedMessage(<<"Error", ":", " ">>)
        /\ (ClientCalled /\ RequestFailed) =>
                ReturnedMessage(<<"Error", " ">> \o doing(tool) \o <<":", " ">>)
        /\ (ClientCalled /\ ~RequestFailed) =>
                IF \/ tool.name = "openehr_ehr_create" /\ ~IsMapping(result.value)
                   \/ tool.name = "openehr_ehr_list" /\ IsScalar(result.value)
                THEN ReturnedMessage(<<"Error", " ">> \o doing(tool) \o <<":", " ">>)
                ELSE IF tool.name = "openehr_ehr_list"
                THEN /\ tool_result.value.kind = "json"
                     /\ tool_result.value.of.total = Len(tool_result.value.of.ehr_ids)
                     /\ tool_result.value.of.ehr_ids =
                            IF "rows" \in DOMAIN result.value
                            THEN << <<"e1">> >>
                            ELSE <<>>
                ELSE tool_result.value = JsonText(result.value)

C19_Witness ==
    /\ pc = "done"
    /\ tool.name = "openehr_template_get"
    /\ response.kind = "http"
    /\ response.status_code = 404
    /\ tool_result =
            Returned(Text(<<"Error", " ", "retrieving template", " ", "t",
                            ":", " ", "HTTPStatusError">>))

-----------------------------------------------------------------------------
(* Properties: the requests of the operations *)

\* C22: execute_adhoc_query always issues one POST to openehr/v1/query/aql
\* whose JSON body has the field q equal to the query string, has the field
\* query_parameters (equal to the given mapping) exactly when a non-empty
\* mapping was given, and has no other field.
C22_AdhocQueryPayload ==
    /\ call.op = "execute_adhoc_query" => issued = 1
    /\ (pc = "awaiting" /\ call.op = "execute_adhoc_query") =>
        /\ wire.method = "POST"
        /\ wire.path = <<"openehr/v1/query/aql">>
        /\ wire.content = None
        /\ wire.json.type = "dict"
        /\ wire.json.q = call.query
        /\ IF call.query_parameters # NoneDict /\ DOMAIN call.query_parameters # {}
           THEN /\ wire.json.keys = << <<"q">>, <<"query_parameters">> >>
                /\ DOMAIN wire.json = {"type", "keys", "q", "query_parameters"}
                /\ wire.json.query_parameters = call.query_parameters
           ELSE /\ wire.json.keys = << <<"q">> >>
                /\ DOMAIN wire.json = {"type", "keys", "q"}

C22_Witness ==
    /\ pc = "awaiting"
    /\ call.op = "execute_adhoc_query"
    /\ call.query_parameters = [ehr_id |-> <<"e1">>]
    /\ wire.method = "POST"
    /\ wire.json.query_parameters = [ehr_id |-> <<"e1">>]
    /\ wire.json.q = <<"SELECT e/ehr_id/value FROM EHR e">>

\* The entries of a dict of query parameters, none for None.
Entries(d) == IF d = NoneDict THEN EmptyDict ELSE d

\* C23: the query parameters of a request hold every parameter the caller
\* supplied, with the caller's value; unless the caller names templateId,
\* they hold templateId exactly when a template ID (a non-empty one) was
\* given and the path contains 'composition', and then with the given
\* template ID; they hold nothing else.
C23_TemplateIdParameter ==
    (pc = "awaiting" /\ call.op = "request") =>
        LET sent == Entries(wire.params)
            supplied == Entries(call.params)
        IN  /\ \A k \in DOMAIN supplied :
                    k \in DOMAIN sent /\ sent[k] = supplied[k]
            /\ DOMAIN sent \subseteq DOMAIN supplied \cup {"templateId"}
            /\ "templateId" \notin DOMAIN supplied =>
                /\ "templateId" \in DOMAIN sent <=>
                        (/\ call.template_id \notin {None, E}
                         /\ \E i \in 1..Len(call.path) : call.path[i] = "/composition")
                /\ "templateId" \in DOMAIN sent =>
                        sent["templateId"] = call.template_id

C23_Witness ==
    /\ pc = "awaiting"
    /\ call.op = "request"
    /\ call.template_id = <<"t">>
    /\ call.path = <<"openehr/v1/ehr/", "e1", "/composition">>
    /\ call.params = [subject_id |-> <<"s">>]
    /\ wire.params = [templateId |-> <<"t">>, subject_id |-> <<"s">>]

\* The format kind that the suspended operation passed to request.
FormatKindPassed ==
    CASE call.op = "delete_ehr" -> <<"json">>
      [] call.op = "upload_template" -> <<"xml">>
      [] OTHER -> call.format_type

\* The Accept and the Content-Type of a format kind, as the class lists them.
ExpectedAccept(kind) ==
    CASE kind = <<"xml">> -> <<"application/xml">>
      [] kind = <<"web_template">> -> <<"application/openehr.wt+json">>
      [] kind = <<"flat_json">> -> <<"application/openehr.wt.flat.schema+json">>
      [] kind = <<"structured_json">> -> <<"application/openehr.wt.structured.schema+json">>
      [] OTHER -> <<"application/json">>

ExpectedContentType(kind) ==
    CASE kind = <<"xml">> -> <<"application/xml">>
      [] kind = <<"flat_json">> -> <<"application/openehr.wt.flat.schema+json">>
      [] OTHER -> <<"application/json">>

\* C24: the Accept and Content-Type headers of every request are those of
\* the table entry of its format kind, those of the json entry for a kind
\* that is none of the five; Prefer: return=representation is present
\* exactly when the kind is flat_json; If-Match aside there is no other
\* header.
C24_FormatHeaders ==
    pc = "awaiting" =>
        /\ wire.headers["Accept"] = ExpectedAccept(FormatKindPassed)
        /\ wire.headers["Content-Type"] = ExpectedContentType(FormatKindPassed)
        /\ "Prefer" \in DOMAIN wire.headers <=> FormatKindPassed = <<"flat_json">>
        /\ "Prefer" \in DOMAIN wire.headers =>
                wire.headers["Prefer"] = <<"return=representation">>
        /\ DOMAIN wire.headers \subseteq {"Accept", "Content-Type", "Prefer", "If-Match"}

C24_Witness ==
    /\ pc = "awaiting"
    /\ call.op = "request"
    /\ call.format_type = <<"bogus_kind">>
    /\ wire.headers["Accept"] = <<"application/json">>
    /\ "Prefer" \notin DOMAIN wire.headers

\* C25 (checked under FrameSpec): no step of a request or of a client
\* operation, successful or failed, changes the format mode, the base URL,
\* the default EHR ID or the shared table FORMAT_HEADERS; the table is the
\* one the class lists, and a request that passed no version UID (or an
\* empty one) carries no If-Match, whatever earlier requests carried.
C25_ConfigurationUnchanged ==
    /\ [][/\ json_format' = json_format
          /\ base_url' = base_url
          /\ default_ehr_id' = default_ehr_id
          /\ FORMAT_HEADERS' = FORMAT_HEADERS]_vars
    /\ [](/\ \A kind \in DOMAIN FORMAT_HEADERS :
                /\ "If-Match" \notin DOMAIN FORMAT_HEADERS[kind]
                /\ FORMAT_HEADERS[kind]["Accept"] = ExpectedAccept(kind)
                /\ FORMAT_HEADERS[kind]["Content-Type"] = ExpectedContentType(kind)
          /\ DOMAIN FORMAT_HEADERS =
                {<<"json">>, <<"xml">>, <<"web_template">>, <<"flat_json">>,
                 <<"structured_json">>}
          /\ (pc = "awaiting" /\ VersionUidPassed \in {None, E}) =>
                "If-Match" \notin DOMAIN wire.headers)

C25_Witness ==
    /\ earlier_if_match
    /\ pc = "awaiting"
    /\ call.op = "get_composition"
    /\ "If-Match" \notin DOMAIN wire.headers
    /\ base_url = <<"http://ehrbase/rest">>
    /\ wire.url = <<"http://ehrbase/rest", "/", "openehr/v1/ehr/", "e1", "/composition/", "o">>
    /\ default_ehr_id = <<"e1">>
    /\ json_format = <<"wt_structured">>

\* C26 as stated: the DELETE of delete_composition carries the headers of
\* the json format whatever the mode and the override; its path is
\* openehr/v1/ehr/{ehr_id}/composition/{uid} with the UID as passed, and it
\* carries no If-Match.
C26_DeleteUsesJson ==
    (pc = "awaiting" /\ call.op = "delete_composition") =>
        /\ wire.method = "DELETE"
        /\ wire.path = <<"openehr/v1/ehr/">> \o call.ehr_id
                            \o <<"/composition/">> \o call.composition_uid
        /\ "If-Match" \notin DOMAIN wire.headers
        /\ wire.headers["Accept"] = <<"application/json">>
        /\ wire.headers["Content-Type"] = <<"application/json">>
        /\ "Prefer" \notin DOMAIN wire.headers

\* The template ID the claim expects a create or an update to send: the
\* explicit one when there is one, else the one of the body's first key.
ExpectedTemplateParameter ==
    IF call.template_id_arg \notin {None, E}
    THEN call.template_id_arg
    ELSE ExpectedTemplateId(call.composition_data)

\* C27: a composition create or update always issues its request; the
\* templateId query parameter is the explicit template ID when the caller
\* supplied one (a non-empty one), and otherwise the ID extracted from the
\* body's first key; with neither (no ID, or an empty one) the request
\* carries no query parameter.
C27_TemplateIdResolution ==
    /\ call.op \in {"create_composition", "update_composition"} => issued = 1
    /\ (/\ pc = "awaiting"
        /\ call.op \in {"create_composition", "update_composition"}) =>
            IF ExpectedTemplateParameter \notin {None, E}
            THEN wire.params = [templateId |-> ExpectedTemplateParameter]
            ELSE wire.params = NoneDict

C27_Witness ==
    /\ pc = "awaiting"
    /\ call.op = "update_composition"
    /\ call.template_id_arg = <<"u">>
    /\ call.composition_data = Dict(<< <<"t", "/">> >>)
    /\ wire.params = [templateId |-> <<"u">>]

\* C28: the body of a request of the transport: a POST sends the raw
\* content when one is given (content is not None), JSON data or not, and
\* the JSON data otherwise; a PUT sends the JSON data and never the raw
\* content; a GET and a DELETE send neither; all four carry the caller's
\* query parameters. upload_template posts the text of its file as raw
\* content.
C28_BodyByMethod ==
    /\ (pc = "awaiting" /\ call.op = "request") =>
        /\ wire.method = call.method
        /\ wire.method \in {"GET", "DELETE"} =>
                wire.json = NoneData /\ wire.content = None
        /\ wire.method = "PUT" =>
                wire.json = call.json_data /\ wire.content = None
        /\ (wire.method = "POST" /\ call.content # None) =>
                wire.content = call.content /\ wire.json = NoneData
        /\ (wire.method = "POST" /\ call.content = None) =>
                wire.json = call.json_data /\ wire.content = None
        /\ \A k \in DOMAIN Entries(call.params) :
                /\ k \in DOMAIN Entries(wire.params)
                /\ wire.params[k] = call.params[k]
    /\ (pc = "awaiting" /\ call.op = "upload_template") =>
        /\ wire.method = "POST"
        /\ wire.content = call.template_content
        /\ wire.json = NoneData

C28_Witness ==
    /\ pc = "awaiting"
    /\ call.op = "request"
    /\ call.method = "POST"
    /\ call.json_data = Dict(<< <<"t", "/">> >>)
    /\ call.content = <<"<template/>">>
    /\ wire.content = <<"<template/>">>
    /\ wire.json = NoneData

\* C30: a call of request with a method that is none of GET, POST, PUT,
\* DELETE issues no HTTP request and raises; nothing is returned.
C30_UnsupportedMethodRaises ==
    (/\ call.op = "request"
     /\ "method" \in DOMAIN call
     /\ call.method \notin {"GET", "POST", "PUT", "DELETE"}) =>
        /\ pc = "done"
        /\ issued = 0
        /\ wire = NoRequest
        /\ response = NoResponse
        /\ outcome.kind = "raise"
        /\ result.kind = "raise"
        /\ result.error.type = "UnboundLocalError"

C30_Witness ==
    /\ pc = "done"
    /\ call.op = "request"
    /\ call.method = "PATCH"
    /\ call.version_uid = <<"o", ":", ":", "o">>
    /\ issued = 0
    /\ result = Raised([type |-> "UnboundLocalError"])

-----------------------------------------------------------------------------
(* Properties: the facade (checked under FacadeSpec) *)

\* The step is the one that the operation of the domain client takes when
\* it is called with the arguments of the facade's call.
SameAsDomain ==
    CASE call'.op = "list_templates" -> list_templates(call'.override)
      [] call'.op = "get_template" ->
            get_template(call'.template_id, call'.override)
      [] call'.op = "get_example_composition" ->
            get_example_composition(call'.template_id, call'.override)
      [] call'.op = "create_composition" ->
            create_composition(call'.ehr_id, call'.composition_data,
                               call'.override, call'.template_id_arg)
      [] call'.op = "get_composition" ->
            get_composition(call'.ehr_id, call'.composition_uid, call'.override)
      [] call'.op \in {"update_composition", "EHRbaseClient.update_composition"} ->
            update_composition(call'.ehr_id, call'.composition_uid,
                               call'.composition_data, call'.override,
                               call'.template_id_arg)
      [] call'.op = "delete_composition" ->
            delete_composition(call'.ehr_id, call'.composition_uid, call'.override)
      [] call'.op = "create_ehr" -> create_ehr(call'.ehr_status, call'.override)
      [] call'.op = "get_ehr" -> get_ehr(call'.ehr_id, call'.override)
      [] call'.op = "get_ehr_by_subject_id" ->
            get_ehr_by_subject_id(call'.subject_id, call'.subject_namespace,
                                  call'.override)
      [] call'.op = "get_ehr_status" -> get_ehr_status(call'.ehr_id, call'.override)
      [] call'.op = "update_ehr_status" ->
            update_ehr_status(call'.ehr_id, call'.status_data,
                              call'.version_uid_arg, call'.override)
      [] call'.op = "delete_ehr" -> delete_ehr(call'.ehr_id)
      [] call'.op = "execute_adhoc_query" ->
            execute_adhoc_query(call'.query, call'.query_parameters, call'.override)
      [] OTHER -> FALSE

\* C29 as stated: every call of a method of the facade is the call of the
\* operation of the domain client with the same arguments (the same single
\* request or the same failure before it, and afterwards the same result,
\* the facade adding nothing), for every argument the domain operation
\* accepts, an explicit template ID on composition update included.
C29_FacadeDelegates == [][pc = "idle" => SameAsDomain]_vars

-----------------------------------------------------------------------------
(* Properties: concurrent operations (checked under ConcurrentSpec) *)

\* The request that the operation with the arguments of call record c
\* issues when no other operation is under way: the one built from its own
\* arguments, the mode of the facade and the class's table as defined.
RequestAlone(c) ==
    LET send(path, method, json_data, format_type, template_id, version_uid) ==
            http_call(path, method,
                      build_headers(FORMAT_HEADERS_TABLE, method, format_type,
                                    version_uid),
                      build_query_params(path, template_id, NoneDict),
                      json_data, None)
    IN  CASE c.op = "list_templates" ->
                send(template_list_path, "GET", NoneData,
                     get_template_list_format(json_format, c.override),
                     None, None)
          [] c.op = "create_composition" ->
                send(composition_path(c.ehr_id), "POST", c.composition_data,
                     get_composition_format(json_format, c.override),
                     Or(c.template_id_arg,
                        extract_template_id(c.composition_data)),
                     None)
          [] c.op = "update_composition" ->
                send(composition_uid_path(c.ehr_id,
                         versioned_object_uid(c.composition_uid)),
                     "PUT", c.composition_data,
                     get_composition_format(json_format, c.override),
                     Or(c.template_id_arg,
                        extract_template_id(c.composition_data)),
                     c.composition_uid)
          [] c.op = "get_composition" ->
                send(composition_uid_path(c.ehr_id, c.composition_uid), "GET",
                     NoneData, get_composition_format(json_format, c.override),
                     None, None)
          [] c.op = "execute_adhoc_query" ->
                send(query_path, "POST",
                     query_payload(c.query, c.query_parameters),
                     get_query_format(json_format, c.override), None, None)

\* A coroutine is where the same operation is when it runs alone: what it
\* has issued is its request alone, and what it hands to its caller is the
\* normalization of the answer to its own request.
AsAlone(co) ==
    /\ co.pc = "awaiting" => co.wire = RequestAlone(co.call)
    /\ co.pc = "done" /\ co.response # NoResponse =>
            /\ co.outcome = normalize(co.response)
            /\ co.result = finish(co.call.op, normalize(co.response))

\* What a request carries beside its verb and URL.
Carried(w) == <<w.headers, w.params, w.json, w.content>>

\* C21: for any interleaving of the operations running concurrently on one
\* facade, each operation issues the same request (verb, path, headers,
\* query parameters, body) and returns the same normalization of its own
\* response as it does when it runs alone; no header, query parameter, body
\* or result of one call in flight appears in another.
C21_ConcurrentCallsIsolated ==
    /\ AsAlone(coroutine)
    /\ AsAlone(suspended)

\* Two operations are in flight at once, an update carrying If-Match, a
\* template ID and a body, and a read carrying none of them.
C21_Witness ==
    /\ pc = "awaiting"
    /\ suspended.pc = "awaiting"
    /\ wire.method = "GET"
    /\ suspended.wire.method = "PUT"
    /\ "If-Match" \in DOMAIN suspended.wire.headers
    /\ suspended.wire.params # NoneDict
    /\ Carried(wire) # Carried(suspended.wire)

\* One operation has returned the normalization of its answer while the
\* other one, called before it, still waits for its own.
C21_WitnessResult ==
    /\ pc = "done"
    /\ result.kind = "return"
    /\ suspended.pc = "sent"
    /\ suspended.call.op # call.op

====
